---- MODULE Spec2Model ----
(***************************************************************************)
(* react-super-grid-v3: the command buses (CellCommandRegistry,            *)
(* RowCommandRegistry, SpaceCommandRegistry), the PluginManager with its   *)
(* dependency resolver, and TableCore's plugin bring-up.                   *)
(*                                                                         *)
(* dispatch is synchronous: one call runs the plugin chain and the handler *)
(* to completion, so each call is one action.  What the call did (which    *)
(* interceptors and handlers ran, in which order, with which command and   *)
(* outcome) is recorded in lastCall, the history of the most recent call.  *)
(***************************************************************************)
EXTENDS Integers, Sequences, FiniteSets, TLC

\* ------------------------------------------------------------- universes
None == "none"

\* Plugin names (BasePlugin.name) and one name that is never registered.
Names == {"A", "B", "C"}
Missing == "X"

\* Dependency lists a plugin may declare (BasePlugin.dependencies): every
\* list of at most two distinct plugin names, and the list that names the
\* unregistered plugin.
DepLists ==
    {<<>>, <<Missing>>} \cup {<<a>> : a \in Names}
        \cup {<<p[1], p[2]>> : p \in {q \in Names \X Names : q[1] # q[2]}}

Kinds == {"cell", "row", "space"}
Targets == {"t1", "t2"}
HandlerIds == {"h1", "h2"}

\* Command names dispatched by the environment.
CmdNames == {"edit"}

\* What an interception callback may do (boolean | void, or throw).
Returns == {"false", "true", "undefined", "throw"}
\* What a handler or a lifecycle hook may do.
Outcomes == {"ok", "throw"}

\* command.timestamp: unset, supplied by the caller, or assigned by dispatch.
Unset == "unset"
Given == "given"
Now == "now"

\* The error value a handler throws.
TheError == "err"

\* ------------------------------------------------------------- helpers
Range(s) == {s[i] : i \in 1..Len(s)}

IndexOf(s, x) == IF x \in Range(s) THEN CHOOSE i \in 1..Len(s) : s[i] = x ELSE 0

RemoveAt(s, i) == [j \in 1..(Len(s) - 1) |-> IF j < i THEN s[j] ELSE s[j + 1]]

\* Sequences of distinct elements of S.
RECURSIVE Perms(_)
Perms(S) ==
    IF S = {} THEN {<<>>}
    ELSE UNION {{<<x>> \o p : p \in Perms(S \ {x})} : x \in S}

DistinctSeqs(S) == UNION {Perms(T) : T \in SUBSET S}

Command(name, targetId, originPlugin, timestamp, payload) ==
    [name |-> name, targetId |-> targetId, originPlugin |-> originPlugin,
     timestamp |-> timestamp, payload |-> payload]

NoCommand == Command(None, None, None, Unset, None)

\* One entry of a call's history: an interceptor, handler or hook that ran,
\* with the command it was given and what it did.
Event(ev, who, cmd, ret) == [ev |-> ev, who |-> who, cmd |-> cmd, ret |-> ret]

VARIABLES
    handlers,             \* [kind -> [target -> handler]]: *CommandRegistry.handlers
    busPlugins,           \* [kind -> plugin names]: *CommandRegistry.plugins
    pmPlugins,            \* PluginManager.plugins, in Map insertion order
    initializationOrder,  \* PluginManager.initializationOrder
    apisSet,              \* plugins whose setAPIs has been called
    spaceRegistry,        \* SpaceRegistry, in Map insertion order
    lastCall,             \* history of the most recent call
    registered,           \* history: per bus and target, the handler most
                          \* recently registered and not unregistered since
    rowRegistry,          \* RowRegistry, in Map insertion order
    cellRegistry,         \* CellRegistry: [cell id -> Cell], NoCell when absent
    gridHandlers,         \* [kind -> ids]: the row and cell ids with a handler
                          \* in Row/CellCommandRegistry.handlers
    rowsCreated,          \* how many row ids uuidv4 has handed out
    mounted,              \* the rows whose GridRow is mounted and not destroyed
    gridRows,             \* the rows whose GridRow is in the tree, destroyed or not
    linkedAcross,         \* the rows handleCrossSpaceLinking found ready and linked
    indexArgs,            \* the arguments of a generateFractionalIndex or
                          \* generateInitialFractionalIndices call
    timers,               \* the pending setTimeout callbacks of handleAddRow
    focusedCell,          \* FocusPlugin.focusedCell
    focusedCells          \* the cells whose component is in its focused state

vars == <<handlers, busPlugins, pmPlugins, initializationOrder, apisSet,
          spaceRegistry, lastCall, registered,
          rowRegistry, cellRegistry, gridHandlers, rowsCreated, mounted,
          gridRows, linkedAcross, indexArgs, timers, focusedCell, focusedCells>>

focusVars == <<focusedCell, focusedCells>>

gridVars == <<rowRegistry, cellRegistry, gridHandlers, rowsCreated, mounted,
              gridRows, linkedAcross, indexArgs, timers>>

busVars == <<handlers, busPlugins>>
coreVars == <<pmPlugins, initializationOrder, apisSet, spaceRegistry>>

\* op: the method called; arg: the bus dispatched on, the plugin named or,
\* for a call that runs the plugins' hooks, what each hook does;
\* cmd: the command dispatched; trace: the calls made; result: how it ended.
Call(op, arg, cmd, trace, result) ==
    [op |-> op, kind |-> arg, cmd |-> cmd, trace |-> trace, result |-> result]

NoCall == Call(None, None, NoCommand, <<>>, None)

NoHandlers == [k \in Kinds |-> [t \in Targets |-> None]]

\* ------------------------------------------------------------ command bus
\* Map.get on the handlers map: undefined for an id that is absent, which
\* includes the absent targetId of a keyboard command.
\* The handler a mounted GridRow or cell component registered is
\* named by the id it is registered under.
GetHandler(kind, targetId) ==
    IF targetId \in Targets THEN handlers[kind][targetId]
    ELSE IF kind \in DOMAIN gridHandlers /\ targetId \in gridHandlers[kind]
         THEN targetId
    ELSE None

\* runPluginChain with the test `if (!result)`: an undefined return blocks.
RECURSIVE RunPluginChainFalsy(_, _, _, _, _)
RunPluginChainFalsy(ev, plugins, command, beh, i) ==
    IF i > Len(plugins) THEN [cont |-> TRUE, trace |-> <<>>]
    ELSE IF command.originPlugin = plugins[i]
         THEN RunPluginChainFalsy(ev, plugins, command, beh, i + 1)
    ELSE LET e == Event(ev, plugins[i], command, beh[plugins[i]]) IN
         IF beh[plugins[i]] \in {"false", "undefined"}
         THEN [cont |-> FALSE, trace |-> <<e>>]
         ELSE LET r == RunPluginChainFalsy(ev, plugins, command, beh, i + 1)
              IN  [cont |-> r.cont, trace |-> <<e>> \o r.trace]

\* runPluginChain without the bypass of the originating plugin.
RECURSIVE RunPluginChainNoBypass(_, _, _, _, _)
RunPluginChainNoBypass(ev, plugins, command, beh, i) ==
    IF i > Len(plugins) THEN [cont |-> TRUE, trace |-> <<>>]
    ELSE LET e == Event(ev, plugins[i], command, beh[plugins[i]]) IN
         IF beh[plugins[i]] = "false"
         THEN [cont |-> FALSE, trace |-> <<e>>]
         ELSE LET r == RunPluginChainNoBypass(ev, plugins, command, beh, i + 1)
              IN  [cont |-> r.cont, trace |-> <<e>> \o r.trace]

\* runPluginChain with the try around the whole loop: a throwing
\* interceptor ends the chain and blocks the command.
RECURSIVE RunPluginChainFailClosed(_, _, _, _, _)
RunPluginChainFailClosed(ev, plugins, command, beh, i) ==
    IF i > Len(plugins) THEN [cont |-> TRUE, trace |-> <<>>]
    ELSE IF command.originPlugin = plugins[i]
         THEN RunPluginChainFailClosed(ev, plugins, command, beh, i + 1)
    ELSE LET e == Event(ev, plugins[i], command, beh[plugins[i]]) IN
         IF beh[plugins[i]] \in {"false", "throw"}
         THEN [cont |-> FALSE, trace |-> <<e>>]
         ELSE LET r == RunPluginChainFailClosed(ev, plugins, command, beh, i + 1)
              IN  [cont |-> r.cont, trace |-> <<e>> \o r.trace]

\* The loop of runPluginChain from position i: cont is the value returned,
\* trace the interceptors invoked.
RECURSIVE RunPluginChainFrom(_, _, _, _, _)
RunPluginChainFrom(ev, plugins, command, beh, i) ==
    IF i > Len(plugins) THEN [cont |-> TRUE, trace |-> <<>>]
    ELSE IF command.originPlugin = plugins[i]
         THEN RunPluginChainFrom(ev, plugins, command, beh, i + 1)
    ELSE LET e == Event(ev, plugins[i], command, beh[plugins[i]]) IN
         IF beh[plugins[i]] = "throw"
         THEN LET r == RunPluginChainFrom(ev, plugins, command, beh, i + 1)
              IN  [cont |-> r.cont, trace |-> <<e>> \o r.trace]
         ELSE IF beh[plugins[i]] = "false"
         THEN [cont |-> FALSE, trace |-> <<e>>]
         ELSE LET r == RunPluginChainFrom(ev, plugins, command, beh, i + 1)
              IN  [cont |-> r.cont, trace |-> <<e>> \o r.trace]

CellRunPluginChain(command, beh) ==
    RunPluginChainFrom("onBeforeCellCommand", busPlugins["cell"], command, beh, 1)

RowRunPluginChain(command, beh) ==
    RunPluginChainFrom("onBeforeRowCommand", busPlugins["row"], command, beh, 1)

SpaceRunPluginChain(command, beh) ==
    RunPluginChainFrom("onBeforeSpaceCommand", busPlugins["space"], command, beh, 1)

ErrorCommand(command) == Command("error", command.targetId, "system", Now, TheError)

\* deliverToCell without the inner try: a throw of the error delivery
\* leaves the method.
DeliverToCellNoInnerTry(command, hb1, hb2) ==
    LET handler == GetHandler("cell", command.targetId) IN
    IF handler = None THEN [trace |-> <<>>, thrown |-> None]
    ELSE IF hb1 = "throw"
         THEN [trace |-> <<Event("handler", handler, command, hb1),
                           Event("handler", handler, ErrorCommand(command), hb2)>>,
               thrown |-> IF hb2 = "throw" THEN TheError ELSE None]
         ELSE [trace |-> <<Event("handler", handler, command, hb1)>>, thrown |-> None]

\* deliverToSpace delivering an error command as deliverToCell does.
DeliverToSpaceWithError(command, hb1, hb2) ==
    LET handler == GetHandler("space", command.targetId) IN
    IF handler = None THEN [trace |-> <<>>, thrown |-> None]
    ELSE IF hb1 = "throw"
         THEN [trace |-> <<Event("handler", handler, command, hb1),
                           Event("handler", handler, ErrorCommand(command), hb2)>>,
               thrown |-> None]
         ELSE [trace |-> <<Event("handler", handler, command, hb1)>>, thrown |-> None]

\* deliverToCell: the handler, and on a throw the same handler once more
\* with the error command.  hb1, hb2: what the handler does on each call.
\* trace: the handler calls made; thrown: the error that leaves the method.
DeliverToCell(command, hb1, hb2) ==
    LET handler == GetHandler("cell", command.targetId) IN
    IF handler = None THEN [trace |-> <<>>, thrown |-> None]
    ELSE IF hb1 = "throw"
         THEN [trace |-> <<Event("handler", handler, command, hb1),
                           Event("handler", handler, ErrorCommand(command), hb2)>>,
               thrown |-> None]
         ELSE [trace |-> <<Event("handler", handler, command, hb1)>>, thrown |-> None]

DeliverToRow(command, hb1, hb2) ==
    LET handler == GetHandler("row", command.targetId) IN
    IF handler = None THEN [trace |-> <<>>, thrown |-> None]
    ELSE IF hb1 = "throw"
         THEN [trace |-> <<Event("handler", handler, command, hb1),
                           Event("handler", handler, ErrorCommand(command), hb2)>>,
               thrown |-> None]
         ELSE [trace |-> <<Event("handler", handler, command, hb1)>>, thrown |-> None]

\* deliverToSpace only logs a throw.
DeliverToSpace(command, hb1, hb2) ==
    LET handler == GetHandler("space", command.targetId) IN
    IF handler = None THEN [trace |-> <<>>, thrown |-> None]
    ELSE [trace |-> <<Event("handler", handler, command, hb1)>>, thrown |-> None]

\* dispatch sets the timestamp when the command has none.
Stamp(command) ==
    IF command.timestamp = Unset THEN [command EXCEPT !.timestamp = Now] ELSE command

\* dispatch: the calls made and the error that reaches the caller, if any.
Blocked(chain) == [trace |-> chain.trace, thrown |-> None]

Delivered(chain, delivery) ==
    [trace |-> chain.trace \o delivery.trace, thrown |-> delivery.thrown]

CellDispatch(command, beh, hb1, hb2) ==
    LET c == Stamp(command)
        chain == CellRunPluginChain(c, beh)
    IN  IF ~chain.cont THEN Blocked(chain)
        ELSE Delivered(chain, DeliverToCell(c, hb1, hb2))

RowDispatch(command, beh, hb1, hb2) ==
    LET c == Stamp(command)
        chain == RowRunPluginChain(c, beh)
    IN  IF ~chain.cont THEN Blocked(chain)
        ELSE Delivered(chain, DeliverToRow(c, hb1, hb2))

SpaceDispatch(command, beh, hb1, hb2) ==
    LET c == Stamp(command)
        chain == SpaceRunPluginChain(c, beh)
    IN  IF ~chain.cont THEN Blocked(chain)
        ELSE Delivered(chain, DeliverToSpace(c, hb1, hb2))

DispatchOn(kind, command, beh, hb1, hb2) ==
    CASE kind = "cell" -> CellDispatch(command, beh, hb1, hb2)
      [] kind = "row" -> RowDispatch(command, beh, hb1, hb2)
      [] kind = "space" -> SpaceDispatch(command, beh, hb1, hb2)

\* TableCore.dispatchCellCommand / dispatchRowCommand / dispatchSpaceCommand.
Dispatch(kind, command, beh, hb1, hb2) ==
    LET d == DispatchOn(kind, command, beh, hb1, hb2) IN
    /\ lastCall' = Call("dispatch", kind, command, d.trace,
                        IF d.thrown = None THEN "returned" ELSE "threw")
    /\ UNCHANGED <<busVars, coreVars>>

\* createPluginAPI's command with the caller's originPlugin kept when the
\* caller gave one.
ContextCommandKeepsOrigin(pluginName, targetId, command) ==
    [command EXCEPT
        !.targetId = targetId,
        !.originPlugin = IF command.originPlugin # None THEN command.originPlugin
                         ELSE pluginName,
        !.timestamp = IF command.timestamp = Unset THEN Now ELSE command.timestamp]

\* The contextCommand of createPluginAPI(pluginName).createCellCommand,
\* createRowCommand and createSpaceCommand: the command spread, then the
\* target, the plugin's name and command.timestamp || Date.now().
ContextCommand(pluginName, targetId, command) ==
    [command EXCEPT
        !.targetId = targetId,
        !.originPlugin = pluginName,
        !.timestamp = IF command.timestamp = Unset THEN Now ELSE command.timestamp]

\* createPluginAPI(pluginName).create<Kind>Command(targetId, command).
CreateCommand(pluginName, kind, targetId, command, beh, hb1, hb2) ==
    LET contextCommand == ContextCommand(pluginName, targetId, command)
        d == DispatchOn(kind, contextCommand, beh, hb1, hb2)
    IN  /\ lastCall' = Call("createCommand", kind, command, d.trace,
                            [pluginName |-> pluginName, targetId |-> targetId,
                             dispatched |-> contextCommand])
        /\ UNCHANGED <<busVars, coreVars>>

\* register that keeps a handler already present (first write wins).
RegisterFirstWins(kind, targetId, handler) ==
    /\ handlers' = IF handlers[kind][targetId] = None
                   THEN [handlers EXCEPT ![kind][targetId] = handler]
                   ELSE handlers
    /\ lastCall' = NoCall
    /\ UNCHANGED <<busPlugins, coreVars>>

Register(kind, targetId, handler) ==
    /\ handlers' = [handlers EXCEPT ![kind][targetId] = handler]
    /\ lastCall' = NoCall
    /\ UNCHANGED <<busPlugins, coreVars>>

Unregister(kind, targetId) ==
    /\ handlers' = [handlers EXCEPT ![kind][targetId] = None]
    /\ lastCall' = NoCall
    /\ UNCHANGED <<busPlugins, coreVars>>

\* setPlugins, called by TableCore on the three registries with one array.
SetPlugins(plugins) ==
    /\ busPlugins' = [k \in Kinds |-> plugins]
    /\ lastCall' = NoCall
    /\ UNCHANGED <<handlers, coreVars>>

\* ---------------------------------------------------------- PluginManager
Plugin(name, dependencies) == [name |-> name, dependencies |-> dependencies]

PluginNames(plugins) == {plugins[i].name : i \in 1..Len(plugins)}

\* Map.has / Map.get on PluginManager.plugins.
HasPlugin(plugins, name) == name \in PluginNames(plugins)

GetPlugin(plugins, name) ==
    plugins[CHOOSE i \in 1..Len(plugins) : plugins[i].name = name]

NoError == [type |-> None, plugin |-> None]
ThrownError(type, plugin) == [type |-> type, plugin |-> plugin]

\* The resolver's marks: st.err is the error thrown, which unwinds every
\* enclosing visit.
InitialMarks == [visited |-> {}, visiting |-> {}, order |-> <<>>, err |-> NoError]

RECURSIVE Visit(_, _, _)
RECURSIVE VisitDependencies(_, _, _, _)

\* visit with one mark for both colours: a back edge is taken for a
\* dependency already ordered.
VisitOneMark(plugins, pluginName, st) ==
    IF st.err # NoError THEN st
    ELSE IF pluginName \in st.visiting \cup st.visited THEN st
    ELSE IF ~HasPlugin(plugins, pluginName)
         THEN [st EXCEPT !.err = ThrownError("missing", pluginName)]
    ELSE LET entered == [st EXCEPT !.visiting = @ \cup {pluginName}]
             after == VisitDependencies(
                          plugins, GetPlugin(plugins, pluginName).dependencies, 1, entered)
         IN  IF after.err # NoError THEN after
             ELSE [after EXCEPT !.visiting = @ \ {pluginName},
                                !.visited = @ \cup {pluginName},
                                !.order = Append(@, pluginName)]

\* visit that orders a plugin before its dependencies (pre-order).
VisitPreOrder(plugins, pluginName, st) ==
    IF st.err # NoError THEN st
    ELSE IF pluginName \in st.visiting
         THEN [st EXCEPT !.err = ThrownError("circular", pluginName)]
    ELSE IF pluginName \in st.visited THEN st
    ELSE IF ~HasPlugin(plugins, pluginName)
         THEN [st EXCEPT !.err = ThrownError("missing", pluginName)]
    ELSE LET entered == [st EXCEPT !.visiting = @ \cup {pluginName},
                                   !.order = Append(@, pluginName)]
             after == VisitDependencies(
                          plugins, GetPlugin(plugins, pluginName).dependencies, 1, entered)
         IN  IF after.err # NoError THEN after
             ELSE [after EXCEPT !.visiting = @ \ {pluginName},
                                !.visited = @ \cup {pluginName}]

Visit(plugins, pluginName, st) ==
    IF st.err # NoError THEN st
    ELSE IF pluginName \in st.visiting
         THEN [st EXCEPT !.err = ThrownError("circular", pluginName)]
    ELSE IF pluginName \in st.visited THEN st
    ELSE IF ~HasPlugin(plugins, pluginName)
         THEN [st EXCEPT !.err = ThrownError("missing", pluginName)]
    ELSE LET entered == [st EXCEPT !.visiting = @ \cup {pluginName}]
             after == VisitDependencies(
                          plugins, GetPlugin(plugins, pluginName).dependencies, 1, entered)
         IN  IF after.err # NoError THEN after
             ELSE [after EXCEPT !.visiting = @ \ {pluginName},
                                !.visited = @ \cup {pluginName},
                                !.order = Append(@, pluginName)]

VisitDependencies(plugins, dependencies, i, st) ==
    IF i > Len(dependencies) \/ st.err # NoError THEN st
    ELSE VisitDependencies(plugins, dependencies, i + 1,
                           Visit(plugins, dependencies[i], st))

\* The loop over this.plugins.keys().
RECURSIVE VisitAll(_, _, _)
VisitAll(plugins, i, st) ==
    IF i > Len(plugins) \/ st.err # NoError THEN st
    ELSE IF plugins[i].name \in st.visited THEN VisitAll(plugins, i + 1, st)
    ELSE VisitAll(plugins, i + 1, Visit(plugins, plugins[i].name, st))

\* resolveAndOrderPlugins: the order computed, or the error thrown (then
\* this.initializationOrder is not assigned).
ResolveAndOrderPlugins(plugins) == VisitAll(plugins, 1, InitialMarks)

\* resolvePluginDependencies, which TableCore calls to have the order before
\* it creates the spaces: the resolver of section 4.2.
ResolvePluginDependencies(plugins) == VisitAll(plugins, 1, InitialMarks)

\* getPluginsInOrder: the names of the order that are still registered.
GetPluginsInOrder(plugins, order) ==
    SelectSeq(order, LAMBDA n : HasPlugin(plugins, n))

\* getPlugins: the registered plugins in insertion order.
GetPlugins(plugins) == [i \in 1..Len(plugins) |-> plugins[i].name]

\* The onInit loop of PluginManager.initializePlugins: the hooks called, in
\* order; a plugin may define no onInit, and a throwing onInit is caught.
OnInitTrace(order, plugins, ib) ==
    LET called == SelectSeq(order, LAMBDA n : HasPlugin(plugins, n) /\ ib[n] # "absent")
    IN  [i \in 1..Len(called) |-> Event("onInit", called[i], NoCommand, ib[called[i]])]

\* PluginManager.initializePlugins.  ib: what each plugin's onInit does.
PMInitializePlugins(ib) ==
    LET r == ResolveAndOrderPlugins(pmPlugins) IN
    /\ IF r.err # NoError
       THEN /\ lastCall' = Call("pmInitializePlugins", None, NoCommand, <<>>, r.err)
            /\ UNCHANGED initializationOrder
       ELSE /\ initializationOrder' = r.order
            /\ lastCall' = Call("pmInitializePlugins", ib, NoCommand,
                                OnInitTrace(r.order, pmPlugins, ib), NoError)
    /\ UNCHANGED <<busVars, pmPlugins, apisSet, spaceRegistry>>

\* addPlugin that replaces a plugin already registered under the name.
AddPluginReplace(name, dependencies) ==
    /\ pmPlugins' = Append(SelectSeq(pmPlugins, LAMBDA p : p.name # name),
                           Plugin(name, dependencies))
    /\ lastCall' = Call("addPlugin", name, NoCommand, <<>>, NoError)
    /\ UNCHANGED <<busVars, initializationOrder, apisSet, spaceRegistry>>

AddPlugin(name, dependencies) ==
    /\ IF HasPlugin(pmPlugins, name)
       THEN /\ lastCall' = Call("addPlugin", name, NoCommand, <<>>,
                                ThrownError("duplicate", name))
            /\ UNCHANGED pmPlugins
       ELSE /\ pmPlugins' = Append(pmPlugins, Plugin(name, dependencies))
            /\ lastCall' = Call("addPlugin", name, NoCommand, <<>>, NoError)
    /\ UNCHANGED <<busVars, initializationOrder, apisSet, spaceRegistry>>

\* removePlugin: onDestroy is called outside any try, so a throwing hook
\* leaves the plugin registered; db is what the hook does.
RemovePlugin(pluginName, db) ==
    /\ IF HasPlugin(pmPlugins, pluginName) /\ db = "throw"
       THEN /\ lastCall' = Call("removePlugin", pluginName, NoCommand,
                                <<Event("onDestroy", pluginName, NoCommand, db)>>,
                                ThrownError("onDestroy", pluginName))
            /\ UNCHANGED <<pmPlugins, initializationOrder>>
       ELSE /\ pmPlugins' = SelectSeq(pmPlugins, LAMBDA p : p.name # pluginName)
            /\ initializationOrder' =
                   IF IndexOf(initializationOrder, pluginName) # 0
                   THEN RemoveAt(initializationOrder, IndexOf(initializationOrder, pluginName))
                   ELSE initializationOrder
            /\ lastCall' = Call("removePlugin", pluginName, NoCommand,
                                IF HasPlugin(pmPlugins, pluginName) /\ db # "absent"
                                THEN <<Event("onDestroy", pluginName, NoCommand, db)>>
                                ELSE <<>>,
                                NoError)
    /\ UNCHANGED <<busVars, apisSet, spaceRegistry>>

Reverse(s) == [i \in 1..Len(s) |-> s[Len(s) + 1 - i]]

\* The onDestroy loop running in ascending initialization order.
OnDestroyTraceAscending(order, plugins, db) ==
    LET called == SelectSeq(order, LAMBDA n : HasPlugin(plugins, n) /\ db[n] # "absent")
    IN  [i \in 1..Len(called) |-> Event("onDestroy", called[i], NoCommand, db[called[i]])]

\* The onDestroy loop of destroy: descending initialization order.
OnDestroyTrace(order, plugins, db) ==
    LET called == SelectSeq(Reverse(order),
                            LAMBDA n : HasPlugin(plugins, n) /\ db[n] # "absent")
    IN  [i \in 1..Len(called) |-> Event("onDestroy", called[i], NoCommand, db[called[i]])]

\* TableCore.destroy, which is PluginManager.destroy.
Destroy(db) ==
    /\ lastCall' = Call("destroy", db, NoCommand,
                        OnDestroyTrace(initializationOrder, pmPlugins, db), NoError)
    /\ pmPlugins' = <<>>
    /\ initializationOrder' = <<>>
    /\ UNCHANGED <<busVars, apisSet, spaceRegistry>>

\* ------------------------------------------------------- SpaceCoordinator
SpaceId(pluginName) == "space-" \o pluginName

\* The id of the Space SuperGrid renders for the table's own data.
TableSpace == "table-space"

Space(id, owner, top, bottom, rowIds) ==
    [id |-> id, owner |-> owner, top |-> top, bottom |-> bottom, rowIds |-> rowIds]

\* SpaceRegistry: a keyed store that lists its ids in insertion order and
\* keeps an id's place when the id is registered again.
SpaceIds(reg) == {reg[i].id : i \in 1..Len(reg)}

SpaceGet(reg, id) == reg[CHOOSE i \in 1..Len(reg) : reg[i].id = id]

SpaceRegister(reg, space) ==
    IF space.id \in SpaceIds(reg)
    THEN [i \in 1..Len(reg) |-> IF reg[i].id = space.id THEN space ELSE reg[i]]
    ELSE Append(reg, space)

\* linkVertical on spaces: both sides, or nothing when either is absent.
SpaceLinkVertical(reg, topId, bottomId) ==
    IF topId \notin SpaceIds(reg) \/ bottomId \notin SpaceIds(reg) THEN reg
    ELSE LET r1 == SpaceRegister(reg, [SpaceGet(reg, topId) EXCEPT !.bottom = bottomId])
         IN  SpaceRegister(r1, [SpaceGet(r1, bottomId) EXCEPT !.top = topId])

\* The bottom-most search that takes the first listed space, whatever its
\* bottom.
BottomMostSpaceFirstListed(reg) ==
    IF reg # <<>> THEN reg[1].id ELSE None

\* The first listed space with no bottom, looked up before the new space is
\* registered.
BottomMostSpace(reg) ==
    IF \E i \in 1..Len(reg) : reg[i].bottom = None
    THEN reg[CHOOSE i \in 1..Len(reg) :
                 /\ reg[i].bottom = None
                 /\ \A j \in 1..(i - 1) : reg[j].bottom # None].id
    ELSE None

CreatePluginSpace(reg, pluginName) ==
    LET bottomSpaceId == BottomMostSpace(reg)
        r1 == SpaceRegister(reg, Space(SpaceId(pluginName), pluginName, None, None, <<>>))
    IN  IF bottomSpaceId # None
        THEN SpaceLinkVertical(r1, bottomSpaceId, SpaceId(pluginName))
        ELSE r1

RECURSIVE CreatePluginSpaces(_, _, _)
CreatePluginSpaces(reg, orderedPlugins, i) ==
    IF i > Len(orderedPlugins) THEN reg
    ELSE CreatePluginSpaces(CreatePluginSpace(reg, orderedPlugins[i]), orderedPlugins, i + 1)

\* --------------------------------------------------------------- TableCore
\* The second step of initializePlugins: one space and one setAPIs per
\* plugin of the order.
SetupTrace(orderedPlugins) ==
    [i \in 1..(2 * Len(orderedPlugins)) |->
        IF i % 2 = 1
        THEN Event("createPluginSpace", orderedPlugins[(i + 1) \div 2], NoCommand, "ok")
        ELSE Event("setAPIs", orderedPlugins[i \div 2], NoCommand, "ok")]

\* initializePlugins connecting the registries to getPlugins(), the
\* insertion order, as the earlier iteration of TableCore does.
InitializePluginsInsertionOrder(ib) ==
    LET first == ResolvePluginDependencies(pmPlugins) IN
    IF first.err # NoError
    THEN /\ lastCall' = Call("initializePlugins", None, NoCommand, <<>>, first.err)
         /\ UNCHANGED <<busVars, coreVars>>
    ELSE LET orderedPlugins == GetPluginsInOrder(pmPlugins, first.order)
             second == ResolveAndOrderPlugins(pmPlugins)
         IN  /\ spaceRegistry' = CreatePluginSpaces(spaceRegistry, orderedPlugins, 1)
             /\ apisSet' = apisSet \cup Range(orderedPlugins)
             /\ busPlugins' = [k \in Kinds |-> GetPlugins(pmPlugins)]
             /\ initializationOrder' =
                    IF second.err = NoError THEN second.order ELSE first.order
             /\ lastCall' = Call("initializePlugins", None, NoCommand,
                                 SetupTrace(orderedPlugins) \o
                                 (IF second.err = NoError
                                  THEN OnInitTrace(second.order, pmPlugins, ib)
                                  ELSE <<>>),
                                 second.err)
             /\ UNCHANGED <<handlers, pmPlugins>>

\* initializePlugins creating the spaces and setting the APIs from
\* getPlugins() before the dependencies are resolved.
InitializePluginsSpacesFirst(ib) ==
    LET first == ResolvePluginDependencies(pmPlugins)
        registeredPlugins == GetPlugins(pmPlugins)
    IN
    /\ spaceRegistry' = CreatePluginSpaces(spaceRegistry, registeredPlugins, 1)
    /\ apisSet' = apisSet \cup Range(registeredPlugins)
    /\ IF first.err # NoError
       THEN /\ lastCall' = Call("initializePlugins", None, NoCommand,
                                SetupTrace(registeredPlugins), first.err)
            /\ UNCHANGED <<busVars, pmPlugins, initializationOrder>>
       ELSE /\ busPlugins' = [k \in Kinds |-> GetPluginsInOrder(pmPlugins, first.order)]
            /\ initializationOrder' = first.order
            /\ lastCall' = Call("initializePlugins", None, NoCommand,
                                SetupTrace(registeredPlugins) \o
                                OnInitTrace(first.order, pmPlugins, ib),
                                NoError)
            /\ UNCHANGED <<handlers, pmPlugins>>

\* TableCore.initializePlugins.  ib: what each plugin's onInit does.
InitializePlugins(ib) ==
    LET first == ResolvePluginDependencies(pmPlugins) IN
    IF first.err # NoError
    THEN /\ lastCall' = Call("initializePlugins", None, NoCommand, <<>>, first.err)
         /\ UNCHANGED <<busVars, coreVars>>
    ELSE LET orderedPlugins == GetPluginsInOrder(pmPlugins, first.order)
             second == ResolveAndOrderPlugins(pmPlugins)
         IN  /\ spaceRegistry' = CreatePluginSpaces(spaceRegistry, orderedPlugins, 1)
             /\ apisSet' = apisSet \cup Range(orderedPlugins)
             /\ busPlugins' = [k \in Kinds |-> orderedPlugins]
             /\ initializationOrder' =
                    IF second.err = NoError THEN second.order ELSE first.order
             /\ lastCall' = Call("initializePlugins", None, NoCommand,
                                 SetupTrace(orderedPlugins) \o
                                 (IF second.err = NoError
                                  THEN OnInitTrace(second.order, pmPlugins, ib)
                                  ELSE <<>>),
                                 second.err)
             /\ UNCHANGED <<handlers, pmPlugins>>

\* ------------------------------------------------------------- order keys
\* A fractional index is a string of decimal digits, kept as the sequence of
\* its digits so that the string order and the number can both be computed.
PADDING_LENGTH == 5
BASE_INCREMENT == 10000

\* parseInt of a string of digits.
RECURSIVE ParseInt(_)
ParseInt(str) ==
    IF str = <<>> THEN 0
    ELSE 10 * ParseInt(SubSeq(str, 1, Len(str) - 1)) + str[Len(str)]

\* Number.prototype.toString of a non-negative integer.
RECURSIVE NumberToString(_)
NumberToString(n) ==
    IF n < 10 THEN <<n>> ELSE Append(NumberToString(n \div 10), n % 10)

\* String.prototype.padStart(targetLength, '0').
RECURSIVE PadStart(_, _)
PadStart(str, targetLength) ==
    IF Len(str) >= targetLength THEN str ELSE PadStart(<<0>> \o str, targetLength)

\* The order of strings by code unit, which on strings of digits is also the
\* order of localeCompare: -1, 0 or 1.
RECURSIVE LocaleCompare(_, _)
LocaleCompare(a, b) ==
    IF a = <<>> /\ b = <<>> THEN 0
    ELSE IF a = <<>> THEN -1
    ELSE IF b = <<>> THEN 1
    ELSE IF a[1] < b[1] THEN -1
    ELSE IF a[1] > b[1] THEN 1
    ELSE LocaleCompare(Tail(a), Tail(b))

\* The JavaScript relational operator > on two strings.
StringGreater(a, b) == LocaleCompare(a, b) = 1

Max(a, b) == IF a >= b THEN a ELSE b

\* TableCore.generateFractionalIndex; None is the omitted argument.
GenerateFractionalIndex(belowIndex, aboveIndex) ==
    IF belowIndex = None /\ aboveIndex = None THEN NumberToString(50000)
    ELSE IF belowIndex = None
         THEN PadStart(NumberToString(Max(ParseInt(aboveIndex) - BASE_INCREMENT, 1000)),
                       PADDING_LENGTH)
    ELSE IF aboveIndex = None
         THEN PadStart(NumberToString(ParseInt(belowIndex) + BASE_INCREMENT), PADDING_LENGTH)
    ELSE LET below == ParseInt(belowIndex)
             above == ParseInt(aboveIndex)
         IN  IF above - below <= 1
             THEN PadStart(NumberToString(above + 1000), PADDING_LENGTH)
             ELSE PadStart(NumberToString((below + above) \div 2), PADDING_LENGTH)

\* generateInitialFractionalIndices(count): item i (from 0) gets the key of
\* (count - i) * BASE_INCREMENT, padded to five characters.
GenerateInitialFractionalIndices(count) ==
    [k \in 1..count |-> PadStart(NumberToString((count - 1 - (k - 1) + 1) * BASE_INCREMENT), 5)]

\* ---------------------------------------------------- rows and registries
\* The row ids uuidv4 hands out, in the order it does, and the columns of
\* the table configuration.
RowIdPool == <<"r1", "r2", "r3", "r4", "r5", "r6", "r7", "r8">>
Columns == <<"c1", "c2">>

\* GridRow's cell ids: one per column, stable for the life of the row.
CellIdOf(rowId, colIndex) == rowId \o "." \o Columns[colIndex]

CellIds == {CellIdOf(RowIdPool[i], c) : i \in 1..Len(RowIdPool), c \in 1..Len(Columns)}

Row(id, spaceId, cells, top, bottom, fractionalIndex) ==
    [id |-> id, spaceId |-> spaceId, cells |-> cells, top |-> top,
     bottom |-> bottom, fractionalIndex |-> fractionalIndex]

Cell(rowId, top, bottom, left, right) ==
    [rowId |-> rowId, top |-> top, bottom |-> bottom, left |-> left, right |-> right]

NoCell == Cell(None, None, None, None, None)
NoCells == [c \in CellIds |-> NoCell]

\* RowRegistry: register, unregister, get, has, list of RegistryI.
RowList(reg) == [i \in 1..Len(reg) |-> reg[i].id]

RowHas(reg, id) == \E i \in 1..Len(reg) : reg[i].id = id

RowGet(reg, id) == reg[CHOOSE i \in 1..Len(reg) : reg[i].id = id]

RowRegister(reg, row) ==
    IF RowHas(reg, row.id)
    THEN [i \in 1..Len(reg) |-> IF reg[i].id = row.id THEN row ELSE reg[i]]
    ELSE Append(reg, row)

RowUnregister(reg, id) == SelectSeq(reg, LAMBDA r : r.id # id)

\* CellRegistry: has, register, unregister.
CellHas(cells, id) == id \in CellIds /\ cells[id] # NoCell

CellRegister(cells, id, cell) == [cells EXCEPT ![id] = cell]

CellUnregister(cells, id) == [cells EXCEPT ![id] = NoCell]

RECURSIVE CellsUnregister(_, _, _)
CellsUnregister(cells, ids, i) ==
    IF i > Len(ids) THEN cells
    ELSE CellsUnregister(CellUnregister(cells, ids[i]), ids, i + 1)

\* ------------------------------------------------------- CellCoordinator
\* linkVertical on cells: both sides, or nothing when either is absent.
CellLinkVertical(cells, topId, bottomId) ==
    IF ~CellHas(cells, topId) \/ ~CellHas(cells, bottomId) THEN cells
    ELSE [cells EXCEPT ![topId].bottom = bottomId, ![bottomId].top = topId]

RECURSIVE LinkCellPairs(_, _, _, _)
LinkCellPairs(cells, top, bottom, i) ==
    IF i > Len(top) THEN cells
    ELSE LinkCellPairs(CellLinkVertical(cells, top[i], bottom[i]), top, bottom, i + 1)

\* linkRowsCells: cell i to cell i; nothing when the lengths differ.
LinkRowsCells(cells, top, bottom) ==
    IF Len(top) # Len(bottom) THEN cells ELSE LinkCellPairs(cells, top, bottom, 1)

\* linkRows: both sides, or nothing when either row is absent.
LinkRows(reg, topRowId, bottomRowId) ==
    IF ~RowHas(reg, topRowId) \/ ~RowHas(reg, bottomRowId) THEN reg
    ELSE LET r1 == RowRegister(reg, [RowGet(reg, topRowId) EXCEPT !.bottom = bottomRowId])
         IN  RowRegister(r1, [RowGet(r1, bottomRowId) EXCEPT !.top = topRowId])

\* ------------------------------------------------------- TableCore: rows
\* position: 'top' | 'bottom' | { after: RowId }.
AtTop == [at |-> "top", after |-> None]
AtBottom == [at |-> "bottom", after |-> None]
After(rowId) == [at |-> "after", after |-> rowId]

\* Array.prototype.sort with (a, b) => b.fractionalIndex.localeCompare(
\* a.fractionalIndex): descending, rows with equal keys kept in their order.
SortedInsert(sorted, row) ==
    LET k == Cardinality({i \in 1..Len(sorted) :
                 LocaleCompare(sorted[i].fractionalIndex, row.fractionalIndex) >= 0})
    IN  SubSeq(sorted, 1, k) \o <<row>> \o SubSeq(sorted, k + 1, Len(sorted))

RECURSIVE SortDescending(_, _)
SortDescending(rows, i) ==
    IF i = 0 THEN <<>> ELSE SortedInsert(SortDescending(rows, i - 1), rows[i])

GetAllRowsSortedByIndex(reg) == SortDescending(reg, Len(reg))

RowsInSpaceSorted(reg, spaceId) ==
    LET rows == SelectSeq(reg, LAMBDA r : r.spaceId = spaceId)
    IN  SortDescending(rows, Len(rows))

\* findVisualNeighbors: the ids of aboveRow and belowRow, None for null.
FindVisualNeighbors(reg, newFractionalIndex) ==
    LET allRows == GetAllRowsSortedByIndex(reg)
        greater == {i \in 1..Len(allRows) :
                       StringGreater(allRows[i].fractionalIndex, newFractionalIndex)}
    IN  IF greater # {}
        THEN LET i == CHOOSE j \in greater : \A k \in greater : j <= k
             IN  [aboveRow |-> allRows[i].id,
                  belowRow |-> IF i > 1 THEN allRows[i - 1].id ELSE None]
        ELSE [aboveRow |-> None,
              belowRow |-> IF Len(allRows) > 0 THEN allRows[Len(allRows)].id ELSE None]

CalculateFractionalIndexForSpace(reg, spaceId, position) ==
    LET rowsInSpace == RowsInSpaceSorted(reg, spaceId) IN
    IF Len(rowsInSpace) = 0 THEN GenerateFractionalIndex(None, None)
    ELSE IF position.at = "top"
         THEN GenerateFractionalIndex(rowsInSpace[1].fractionalIndex, None)
    ELSE IF position.at = "bottom"
         THEN GenerateFractionalIndex(None, rowsInSpace[Len(rowsInSpace)].fractionalIndex)
    ELSE IF ~RowHas(reg, position.after) THEN GenerateFractionalIndex(None, None)
    ELSE LET allRows == GetAllRowsSortedByIndex(reg)
             targetIndex == CHOOSE i \in 1..Len(allRows) : allRows[i].id = position.after
         IN  GenerateFractionalIndex(
                 allRows[targetIndex].fractionalIndex,
                 IF targetIndex < Len(allRows)
                 THEN allRows[targetIndex + 1].fractionalIndex
                 ELSE None)

\* updateSpatialLinks: the registry and the new row (not yet registered)
\* after the links are written.
UpdateSpatialLinks(reg, newRow) ==
    LET n == FindVisualNeighbors(reg, newRow.fractionalIndex)
        row0 == [newRow EXCEPT
                    !.top = IF n.aboveRow # None THEN RowGet(reg, n.aboveRow).top ELSE None,
                    !.bottom = IF n.belowRow # None THEN RowGet(reg, n.belowRow).bottom
                               ELSE None]
        reg1 == IF n.aboveRow # None
                THEN RowRegister(reg, [RowGet(reg, n.aboveRow) EXCEPT !.bottom = newRow.id])
                ELSE reg
        row1 == IF n.aboveRow # None THEN [row0 EXCEPT !.top = n.aboveRow] ELSE row0
        reg2 == IF n.belowRow # None
                THEN RowRegister(reg1, [RowGet(reg1, n.belowRow) EXCEPT !.top = newRow.id])
                ELSE reg1
        row2 == IF n.belowRow # None THEN [row1 EXCEPT !.bottom = n.belowRow] ELSE row1
    IN  [reg |-> reg2, newRow |-> row2]

\* TableCore.createRowInSpace.
CreateRowInSpace(spaceId, position) ==
    LET newRowId == RowIdPool[rowsCreated + 1]
        newFractionalIndex == CalculateFractionalIndexForSpace(rowRegistry, spaceId, position)
        linked == UpdateSpatialLinks(
                      rowRegistry,
                      Row(newRowId, spaceId, <<>>, None, None, newFractionalIndex))
    IN  /\ rowsCreated' = rowsCreated + 1
        /\ rowRegistry' = RowRegister(linked.reg, linked.newRow)
        /\ lastCall' = Call("createRowInSpace", spaceId, NoCommand, <<>>,
                            [rowId |-> newRowId, position |-> position])
        /\ UNCHANGED <<busVars, coreVars, cellRegistry, gridHandlers, mounted, gridRows,
                       linkedAcross,
                       indexArgs, timers>>

\* GridRow's render: every cell of the row is registered with its left and
\* right neighbours and no vertical ones, and added to the row's cells; on
\* mount the row and its cells register their command handlers.
RECURSIVE RegisterRowCells(_, _, _)
RegisterRowCells(cells, rowId, i) ==
    IF i > Len(Columns) THEN cells
    ELSE RegisterRowCells(
             CellRegister(cells, CellIdOf(rowId, i),
                 Cell(rowId, None, None,
                      IF i > 1 THEN CellIdOf(rowId, i - 1) ELSE None,
                      IF i < Len(Columns) THEN CellIdOf(rowId, i + 1) ELSE None)),
             rowId, i + 1)

RECURSIVE AddCellsToRow(_, _, _)
AddCellsToRow(reg, rowId, i) ==
    IF i > Len(Columns) \/ ~RowHas(reg, rowId) THEN reg
    ELSE LET row == RowGet(reg, rowId)
             cellId == CellIdOf(rowId, i)
         IN  AddCellsToRow(
                 IF cellId \in Range(row.cells) THEN reg
                 ELSE RowRegister(reg, [row EXCEPT !.cells = Append(@, cellId)]),
                 rowId, i + 1)

RenderRow(rowId) ==
    /\ cellRegistry' = RegisterRowCells(cellRegistry, rowId, 1)
    /\ rowRegistry' = AddCellsToRow(rowRegistry, rowId, 1)
    /\ gridHandlers' =
           IF rowId \in mounted THEN gridHandlers
           ELSE [cell |-> gridHandlers.cell \cup
                              {CellIdOf(rowId, i) : i \in 1..Len(Columns)},
                 row |-> gridHandlers.row \cup {rowId}]
    /\ mounted' = mounted \cup {rowId}
    /\ gridRows' = gridRows \cup {rowId}
    /\ UNCHANGED <<busVars, coreVars, rowsCreated, lastCall, indexArgs, timers,
                   linkedAcross>>

\* Space's linking effect: the rows of the space top to bottom, each linked
\* to the next at cell level when both have the same, non-zero cell count.
RECURSIVE LinkConsecutiveRows(_, _, _)
LinkConsecutiveRows(cells, spaceRows, i) ==
    IF i >= Len(spaceRows) THEN cells
    ELSE LinkConsecutiveRows(
             IF /\ Len(spaceRows[i].cells) = Len(spaceRows[i + 1].cells)
                /\ Len(spaceRows[i].cells) > 0
             THEN LinkRowsCells(cells, spaceRows[i].cells, spaceRows[i + 1].cells)
             ELSE cells,
             spaceRows, i + 1)

LinkSpaceCells(spaceId) ==
    /\ cellRegistry' =
           LinkConsecutiveRows(cellRegistry, RowsInSpaceSorted(rowRegistry, spaceId), 1)
    /\ UNCHANGED <<busVars, coreVars, rowRegistry, gridHandlers, rowsCreated,
                   mounted, gridRows, linkedAcross, lastCall, indexArgs, timers>>

\* What the registries and buses hold when destroyRow dispatches the
\* destroy command: after its steps 1 and 2, before its step 4.
AtDispatch(rows, cells, hs) == [rowRegistry |-> rows, cellRegistry |-> cells, gridHandlers |-> hs]

\* destroyRow that does not relink the cells of the two neighbours.
DestroyRowNoCellRelink(rowId, beh) ==
    IF ~RowHas(rowRegistry, rowId)
    THEN /\ lastCall' = Call("destroyRow", rowId, NoCommand, <<>>, "not found")
         /\ UNCHANGED <<busVars, coreVars, gridVars>>
    ELSE
    LET row == RowGet(rowRegistry, rowId)
        topRowId == row.top
        bottomRowId == row.bottom
        cells1 == CellsUnregister(cellRegistry, row.cells, 1)
        reg1 == IF topRowId # None /\ bottomRowId # None
                THEN LinkRows(rowRegistry, topRowId, bottomRowId)
                ELSE IF topRowId # None
                     THEN IF RowHas(rowRegistry, topRowId)
                          THEN RowRegister(rowRegistry,
                                   [RowGet(rowRegistry, topRowId) EXCEPT !.bottom = None])
                          ELSE rowRegistry
                ELSE IF bottomRowId # None
                     THEN IF RowHas(rowRegistry, bottomRowId)
                          THEN RowRegister(rowRegistry,
                                   [RowGet(rowRegistry, bottomRowId) EXCEPT !.top = None])
                          ELSE rowRegistry
                ELSE rowRegistry
        cells2 == IF /\ topRowId # None /\ bottomRowId # None
                     /\ RowHas(reg1, topRowId) /\ RowHas(reg1, bottomRowId)
                  THEN cells1
                  ELSE cells1
        command == Command("destroy", rowId, None, Given, None)
        chain == RowRunPluginChain(Stamp(command), beh)
        delivered == chain.cont /\ rowId \in gridHandlers.row
    IN  /\ rowRegistry' = RowUnregister(reg1, rowId)
        /\ cellRegistry' = cells2
        /\ gridHandlers' = [cell |-> gridHandlers.cell \ Range(row.cells),
                            row |-> gridHandlers.row \ {rowId}]
        /\ mounted' = IF delivered THEN mounted \ {rowId} ELSE mounted
        /\ lastCall' = Call("destroyRow", rowId, command,
                            chain.trace \o
                            (IF delivered
                             THEN <<Event("handler", "GridRow", Stamp(command), "ok")>>
                             ELSE <<>>),
                            [top |-> topRowId, bottom |-> bottomRowId,
                             atDispatch |-> AtDispatch(reg1, cells2,
                                 [cell |-> gridHandlers.cell \ Range(row.cells),
                                  row |-> gridHandlers.row])])
        /\ UNCHANGED <<busVars, coreVars, rowsCreated, gridRows, linkedAcross, indexArgs, timers>>

\* TableCore.destroyRow.  beh: what each plugin's onBeforeRowCommand returns
\* for the destroy command.
DestroyRow(rowId, beh) ==
    IF ~RowHas(rowRegistry, rowId)
    THEN /\ lastCall' = Call("destroyRow", rowId, NoCommand, <<>>, "not found")
         /\ UNCHANGED <<busVars, coreVars, gridVars>>
    ELSE
    LET row == RowGet(rowRegistry, rowId)
        topRowId == row.top
        bottomRowId == row.bottom
        cells1 == CellsUnregister(cellRegistry, row.cells, 1)
        reg1 == IF topRowId # None /\ bottomRowId # None
                THEN LinkRows(rowRegistry, topRowId, bottomRowId)
                ELSE IF topRowId # None
                     THEN IF RowHas(rowRegistry, topRowId)
                          THEN RowRegister(rowRegistry,
                                   [RowGet(rowRegistry, topRowId) EXCEPT !.bottom = None])
                          ELSE rowRegistry
                ELSE IF bottomRowId # None
                     THEN IF RowHas(rowRegistry, bottomRowId)
                          THEN RowRegister(rowRegistry,
                                   [RowGet(rowRegistry, bottomRowId) EXCEPT !.top = None])
                          ELSE rowRegistry
                ELSE rowRegistry
        cells2 == IF /\ topRowId # None /\ bottomRowId # None
                     /\ RowHas(reg1, topRowId) /\ RowHas(reg1, bottomRowId)
                  THEN LinkRowsCells(cells1, RowGet(reg1, topRowId).cells,
                                     RowGet(reg1, bottomRowId).cells)
                  ELSE cells1
        command == Command("destroy", rowId, None, Given, None)
        chain == RowRunPluginChain(Stamp(command), beh)
        delivered == chain.cont /\ rowId \in gridHandlers.row
    IN  /\ rowRegistry' = RowUnregister(reg1, rowId)
        /\ cellRegistry' = cells2
        /\ gridHandlers' = [cell |-> gridHandlers.cell \ Range(row.cells),
                            row |-> gridHandlers.row \ {rowId}]
        /\ mounted' = IF delivered THEN mounted \ {rowId} ELSE mounted
        /\ lastCall' = Call("destroyRow", rowId, command,
                            chain.trace \o
                            (IF delivered
                             THEN <<Event("handler", "GridRow", Stamp(command), "ok")>>
                             ELSE <<>>),
                            [top |-> topRowId, bottom |-> bottomRowId,
                             atDispatch |-> AtDispatch(reg1, cells2,
                                 [cell |-> gridHandlers.cell \ Range(row.cells),
                                  row |-> gridHandlers.row])])
        /\ UNCHANGED <<busVars, coreVars, rowsCreated, gridRows, linkedAcross, indexArgs, timers>>

\* ------------------------------------------------------- Space: addRow
\* StringPositionGenerator: the position strings of the rows of a space.
GenerateHigherString(existing) == NumberToString(ParseInt(existing) + 10)

GenerateLowerString(existing) ==
    LET num == ParseInt(existing)
    IN  IF num <= 10
        THEN PadStart(NumberToString(Max(1, num - 5)), 2)
        ELSE NumberToString(num - 10)

\* The last and the first element of [...strings].sort().
SortedHighest(strings) ==
    CHOOSE h \in Range(strings) : \A o \in Range(strings) : LocaleCompare(h, o) >= 0
SortedLowest(strings) ==
    CHOOSE l \in Range(strings) : \A o \in Range(strings) : LocaleCompare(l, o) <= 0

GeneratePositionString(existingRowStrings, position) ==
    IF Len(existingRowStrings) = 0 THEN NumberToString(20)
    ELSE IF position = "top"
         THEN GenerateHigherString(SortedHighest(existingRowStrings))
         ELSE GenerateLowerString(SortedLowest(existingRowStrings))

GetRowString(reg, rowId) ==
    IF RowHas(reg, rowId) THEN RowGet(reg, rowId).rowString ELSE NumberToString(20)

\* The rowIds handleAddRow reads.  The space's command handler is registered
\* by an effect that runs when the Space mounts, so the handleAddRow it calls
\* is the one of the first render, whose rowIds is the initial state.
ClosureRowIds == <<>>

\* newRowIds.splice(insertIndex, 0, newRowId)
Splice(ids, insertIndex, id) ==
    SubSeq(ids, 1, insertIndex) \o <<id>> \o SubSeq(ids, insertIndex + 1, Len(ids))

\* setTimeout(() => handleCrossSpaceLinking(newRowId, position), 50) of the
\* Space with id spaceId.
Timer(spaceId, newRowId, position) ==
    [spaceId |-> spaceId, rowId |-> newRowId, position |-> position]

\* Space.handleAddRow, the handler of the space command addRow.  It ends by
\* setting the timer that calls handleCrossSpaceLinking(newRowId, position).
\* op, arg, cmd, trace: the call that reached the handler, for the history.
HandleAddRowFrom(spaceId, position, op, arg, cmd, trace) ==
    IF spaceId \notin SpaceIds(spaceRegistry)
    THEN /\ lastCall' = Call(op, arg, cmd, trace, "not found")
         /\ UNCHANGED <<busVars, coreVars, gridVars>>
    ELSE
    LET newRowId == RowIdPool[rowsCreated + 1]
        currentSpace == SpaceGet(spaceRegistry, spaceId)
        rowIds == ClosureRowIds
        existingRowStrings ==
            [i \in 1..Len(rowIds) |-> GetRowString(rowRegistry, rowIds[i])]
        rowString == GeneratePositionString(existingRowStrings, position)
        insertIndex == IF position = "top" THEN 0 ELSE Len(rowIds)
        newRow == [id |-> newRowId, spaceId |-> spaceId, cells |-> <<>>,
                   top |-> None, bottom |-> None, rowString |-> rowString]
        newRowIds == Splice(rowIds, insertIndex, newRowId)
    IN  /\ rowRegistry' = RowRegister(rowRegistry, newRow)
        /\ spaceRegistry' =
               SpaceRegister(spaceRegistry, [currentSpace EXCEPT !.rowIds = newRowIds])
        /\ rowsCreated' = rowsCreated + 1
        /\ lastCall' = Call(op, arg, cmd, trace,
                            [rowId |-> newRowId, position |-> position])
        /\ timers' = timers \cup {Timer(spaceId, newRowId, position)}
        /\ UNCHANGED <<busVars, pmPlugins, initializationOrder, apisSet,
                       cellRegistry, gridHandlers, mounted, gridRows, linkedAcross,
                       indexArgs>>

\* The handler called with an addRow command addressed to its space.
HandleAddRow(spaceId, position) ==
    HandleAddRowFrom(spaceId, position, "addRow", spaceId, NoCommand, <<>>)

\* ------------------------------------------------- plugin API: createRow
\* Map.get on the space handlers: every Space of the registry is mounted and
\* has registered handleSpaceCommand under its own id.
SpaceHandler(targetSpaceId) ==
    IF targetSpaceId \in SpaceIds(spaceRegistry) THEN targetSpaceId ELSE None

\* The first listed space whose owner is the plugin; None when there is none.
PluginSpace(pluginName) ==
    LET owned == {i \in 1..Len(spaceRegistry) : spaceRegistry[i].owner = pluginName}
    IN  IF owned = {} THEN None
        ELSE spaceRegistry[CHOOSE i \in owned : \A j \in owned : i <= j].id

\* The space command built by createRow.  It stores the space's name in a
\* property called targetId; the property the space registry reads,
\* targetSpaceId (the command's target in this model), is never set.
CreateRowCommand(pluginName, position) ==
    Command("addRow", None, pluginName, Now,
            IF position = None THEN "bottom" ELSE position)

\* createPluginAPI(pluginName).createRow(rowData, position): the plugin's
\* space is looked up, the command is built and dispatched on the space
\* command registry, whose handler, when one is found, is Space.handleAddRow.
CreateRow(pluginName, position, beh) ==
    IF PluginSpace(pluginName) = None
    THEN /\ lastCall' = Call("createRow", pluginName, NoCommand, <<>>, "no space")
         /\ UNCHANGED <<busVars, coreVars, gridVars>>
    ELSE
    LET spaceCommand == CreateRowCommand(pluginName, position)
        chain == SpaceRunPluginChain(spaceCommand, beh)
        handler == SpaceHandler(spaceCommand.targetId)
    IN  IF chain.cont /\ handler # None
        THEN HandleAddRowFrom(handler, spaceCommand.payload, "createRow", pluginName,
                 spaceCommand,
                 chain.trace \o <<Event("handler", handler, spaceCommand, "undefined")>>)
        ELSE /\ lastCall' = Call("createRow", pluginName, spaceCommand, chain.trace,
                                 "not delivered")
             /\ UNCHANGED <<busVars, coreVars, gridVars>>

\* --------------------------------------------------- Space: initial data
\* The row the initial-data effect creates in its j-th pass, of count: the
\* loop runs i from initialData.length - 1 down to 0, so i = count - j, the
\* position string is (30 - i * 10).toString(), top is the row of the pass
\* before and bottom is null until the next pass links it.
InitialRow(spaceId, firstIndex, j, count) ==
    [id |-> RowIdPool[firstIndex + j], spaceId |-> spaceId, cells |-> <<>>,
     top |-> IF j = 1 THEN None ELSE RowIdPool[firstIndex + j - 1],
     bottom |-> None,
     rowString |-> NumberToString(30 - (count - j) * 10)]

RECURSIVE RegisterInitialRows(_, _, _, _, _)
RegisterInitialRows(reg, spaceId, firstIndex, j, count) ==
    IF j > count THEN reg
    ELSE LET rowObject == InitialRow(spaceId, firstIndex, j, count)
             reg1 == IF rowObject.top # None /\ RowHas(reg, rowObject.top)
                     THEN RowRegister(reg, [RowGet(reg, rowObject.top) EXCEPT
                                               !.bottom = rowObject.id])
                     ELSE reg
         IN  RegisterInitialRows(RowRegister(reg1, rowObject), spaceId, firstIndex,
                                 j + 1, count)

\* Space's initial-data effect, run when the Space mounts with count items
\* of initial data: the rows are created and linked into one chain.
InitializeWithData(spaceId, count) ==
    /\ rowRegistry' = RegisterInitialRows(rowRegistry, spaceId, rowsCreated, 1, count)
    /\ rowsCreated' = rowsCreated + count
    /\ lastCall' = Call("initialData", spaceId, NoCommand, <<>>, [count |-> count])
    /\ UNCHANGED <<busVars, coreVars, cellRegistry, gridHandlers, mounted, gridRows,
                   linkedAcross, indexArgs, timers>>

\* ---------------------------------------------- Space: cross-space linking
\* findNearestSpaceWithRows: walks the chain of spaces from the space's top
\* (bottom) until a space with a non-empty rowIds; null when there is none.
RECURSIVE SearchSpaceWithRows(_, _, _, _)
SearchSpaceWithRows(spaces, searchSpaceId, direction, fuel) ==
    IF searchSpaceId = None \/ searchSpaceId \notin SpaceIds(spaces) \/ fuel = 0 THEN None
    ELSE LET searchSpace == SpaceGet(spaces, searchSpaceId)
         IN  IF Len(searchSpace.rowIds) > 0 THEN searchSpaceId
             ELSE SearchSpaceWithRows(spaces,
                      IF direction = "above" THEN searchSpace.top ELSE searchSpace.bottom,
                      direction, fuel - 1)

FindNearestSpaceWithRows(spaces, spaceId, direction) ==
    IF spaceId \notin SpaceIds(spaces) THEN None
    ELSE LET currentSpace == SpaceGet(spaces, spaceId)
         IN  SearchSpaceWithRows(spaces,
                 IF direction = "above" THEN currentSpace.top ELSE currentSpace.bottom,
                 direction, Len(spaces))

\* The two rows' cells linked when both rows exist and both have cells.
LinkRowPair(cells, rows, topRowId, bottomRowId) ==
    IF /\ RowHas(rows, topRowId) /\ RowHas(rows, bottomRowId)
       /\ Len(RowGet(rows, topRowId).cells) > 0
       /\ Len(RowGet(rows, bottomRowId).cells) > 0
    THEN LinkRowsCells(cells, RowGet(rows, topRowId).cells, RowGet(rows, bottomRowId).cells)
    ELSE cells

LinkToSpaceAbove(cells, rows, spaces, newRowId, spaceAboveId) ==
    IF spaceAboveId = None \/ spaceAboveId \notin SpaceIds(spaces) THEN cells
    ELSE LET spaceAbove == SpaceGet(spaces, spaceAboveId)
         IN  IF Len(spaceAbove.rowIds) = 0 THEN cells
             ELSE LinkRowPair(cells, rows, spaceAbove.rowIds[Len(spaceAbove.rowIds)], newRowId)

LinkToSpaceBelow(cells, rows, spaces, newRowId, spaceBelowId) ==
    IF spaceBelowId = None \/ spaceBelowId \notin SpaceIds(spaces) THEN cells
    ELSE LET spaceBelow == SpaceGet(spaces, spaceBelowId)
         IN  IF Len(spaceBelow.rowIds) = 0 THEN cells
             ELSE LinkRowPair(cells, rows, newRowId, spaceBelow.rowIds[1])

\* linkInternallyAndCrossSpace.  newRowIndex is rowIds.indexOf(newRowId),
\* counted from 0 and -1 when absent; rowIds[k] is the model's rowIds[k + 1].
LinkInternallyAndCrossSpace(cells, rows, spaces, rowIds, newRowId, position, spaceAbove, spaceBelow) ==
    LET newRowIndex == IndexOf(rowIds, newRowId) - 1
    IN  IF position = "top"
        THEN LinkToSpaceAbove(
                 IF newRowIndex + 1 < Len(rowIds)
                 THEN LinkRowPair(cells, rows, newRowId, rowIds[newRowIndex + 2])
                 ELSE cells,
                 rows, spaces, newRowId, spaceAbove)
        ELSE LinkToSpaceBelow(
                 IF newRowIndex > 0
                 THEN LinkRowPair(cells, rows, rowIds[newRowIndex], newRowId)
                 ELSE cells,
                 rows, spaces, newRowId, spaceBelow)

\* handleCrossSpaceLinking, the callback of the timer handleAddRow set.  It
\* belongs to the same render as that handleAddRow and reads the same rowIds.
HandleCrossSpaceLinking(timer) ==
    LET newRowId == timer.rowId
        position == timer.position
        rowIds == ClosureRowIds
        spaceAbove == FindNearestSpaceWithRows(spaceRegistry, timer.spaceId, "above")
        spaceBelow == FindNearestSpaceWithRows(spaceRegistry, timer.spaceId, "below")
    IN  /\ timers' = timers \ {timer}
        /\ cellRegistry' =
               IF ~RowHas(rowRegistry, newRowId) THEN cellRegistry
               ELSE IF Len(RowGet(rowRegistry, newRowId).cells) = 0 THEN cellRegistry
               ELSE IF Len(rowIds) = 1
                    THEN LinkToSpaceBelow(
                             LinkToSpaceAbove(cellRegistry, rowRegistry, spaceRegistry,
                                              newRowId, spaceAbove),
                             rowRegistry, spaceRegistry, newRowId, spaceBelow)
                    ELSE LinkInternallyAndCrossSpace(cellRegistry, rowRegistry, spaceRegistry,
                             rowIds, newRowId, position, spaceAbove, spaceBelow)
        /\ lastCall' = Call("handleCrossSpaceLinking", timer.spaceId, NoCommand, <<>>,
                            [rowId |-> newRowId, position |-> position])
        /\ linkedAcross' =
               IF /\ RowHas(rowRegistry, newRowId)
                  /\ Len(RowGet(rowRegistry, newRowId).cells) > 0
               THEN linkedAcross \cup {newRowId}
               ELSE linkedAcross
        /\ UNCHANGED <<busVars, coreVars, rowRegistry, gridHandlers, rowsCreated,
                       mounted, gridRows, indexArgs>>

\* The render of a Space after setRowIds: a GridRow for every id of the
\* rowIds state that is a registered row (the state holds what handleAddRow
\* stored in space.rowIds), in that order; the GridRows of the space's other
\* rows unmount, which unregisters their row handlers.
RECURSIVE RenderRowsCells(_, _, _)
RenderRowsCells(cells, ids, i) ==
    IF i > Len(ids) THEN cells
    ELSE RenderRowsCells(RegisterRowCells(cells, ids[i], 1), ids, i + 1)

RECURSIVE RenderRowsAddCells(_, _, _)
RenderRowsAddCells(rows, ids, i) ==
    IF i > Len(ids) THEN rows
    ELSE RenderRowsAddCells(AddCellsToRow(rows, ids[i], 1), ids, i + 1)

RenderSpace(spaceId) ==
    LET rowIds == SelectSeq(SpaceGet(spaceRegistry, spaceId).rowIds,
                            LAMBDA id : RowHas(rowRegistry, id))
        unmounted == {id \in mounted \ Range(rowIds) :
                         RowHas(rowRegistry, id) /\ RowGet(rowRegistry, id).spaceId = spaceId}
        mounting == Range(rowIds) \ mounted
    IN  /\ cellRegistry' = RenderRowsCells(cellRegistry, rowIds, 1)
        /\ rowRegistry' = RenderRowsAddCells(rowRegistry, rowIds, 1)
        /\ gridHandlers' =
               [cell |-> gridHandlers.cell \cup
                            {CellIdOf(id, i) : id \in mounting, i \in 1..Len(Columns)},
                row |-> (gridHandlers.row \ unmounted) \cup mounting]
        /\ mounted' = (mounted \ unmounted) \cup Range(rowIds)
        /\ gridRows' = (gridRows \ unmounted) \cup Range(rowIds)
        /\ UNCHANGED <<busVars, coreVars, rowsCreated, lastCall, indexArgs, timers,
                       linkedAcross>>

\* ------------------------------------------------- SuperGrid: re-render
\* A render of SuperGrid.  It builds a new tableContextValue, so every
\* GridRow in the tree renders again and its handler effect, whose
\* dependencies are [id, tableContext], runs again: the row handler is
\* unregistered and registered.  A GridRow that is not destroyed registers
\* its cells again as in every render; a destroyed one renders nothing but
\* is still in the tree, its Space's spaceRows state still naming it.
RerenderGrid ==
    LET live == SelectSeq(RowIdPool, LAMBDA id : id \in mounted)
    IN  /\ cellRegistry' = RenderRowsCells(cellRegistry, live, 1)
        /\ rowRegistry' = RenderRowsAddCells(rowRegistry, live, 1)
        /\ gridHandlers' = [cell |-> gridHandlers.cell,
                            row |-> gridHandlers.row \cup gridRows]
        /\ UNCHANGED <<busVars, coreVars, rowsCreated, mounted, gridRows, linkedAcross, lastCall,
                       indexArgs, timers>>

\* The render of the Spaces after their query effect stored the rows the
\* registry holds: the GridRows of the rows that are no longer registered
\* unmount, and the cleanup of their handler effect unregisters the handler.
RequerySpaces ==
    LET gone == {id \in gridRows : ~RowHas(rowRegistry, id)}
    IN  /\ gone # {}
        /\ gridRows' = gridRows \ gone
        /\ mounted' = mounted \ gone
        /\ gridHandlers' = [cell |-> gridHandlers.cell,
                            row |-> gridHandlers.row \ gone]
        /\ UNCHANGED <<busVars, coreVars, rowRegistry, cellRegistry, rowsCreated,
                       linkedAcross, lastCall, indexArgs, timers>>

\* ------------------------------------------------------------ FocusPlugin
FocusPluginName == "focus-plugin"

ArrowKeys == {"ArrowUp", "ArrowDown", "ArrowLeft", "ArrowRight"}

IsArrow(key) == key \in ArrowKeys

\* FocusPlugin.focusedCell and the focused state of the cell components.
FocusState(cell, cells) == [focusedCell |-> cell, focusedCells |-> cells]

\* The command handler of a cell component: focused on `focus`, not
\* focused on `blur`, as it is for every handler call of a dispatch.
RECURSIVE CellHandlers(_, _, _)
CellHandlers(cells, trace, i) ==
    IF i > Len(trace) THEN cells
    ELSE LET e == trace[i] IN
         CellHandlers(
             IF e.ev = "handler" /\ e.cmd.name = "focus" THEN cells \cup {e.who}
             ELSE IF e.ev = "handler" /\ e.cmd.name = "blur" THEN cells \ {e.who}
             ELSE cells,
             trace, i + 1)

\* What a call of the plugin leaves: its state and the calls made.
Done(fs, trace) == [fs |-> fs, trace |-> trace]

\* The cell components after the dispatch d.
AfterDispatch(fs, d) ==
    Done([fs EXCEPT !.focusedCells = CellHandlers(@, d.trace, 1)], d.trace)

\* The calls of `first`, then those of `second`.
Sequenced(first, second) == Done(second.fs, first.trace \o second.trace)

\* tableAPIs.createCellCommand(id, { name }) of the plugin: a whole dispatch
\* of the command under the plugin's name.  behs: what the other plugins
\* do with a command of each name.
PluginCellCommand(fs, id, name, behs) ==
    AfterDispatch(fs,
        CellDispatch(
            ContextCommand(FocusPluginName, id, Command(name, None, None, Unset, None)),
            behs[name], "ok", "ok"))

BlurCell(fs, id, behs) == PluginCellCommand(fs, id, "blur", behs)

\* focusCell that does not record the cell it focuses.
FocusWithoutRecording(blurred, id, behs) ==
    Sequenced(blurred, PluginCellCommand(blurred.fs, id, "focus", behs))

\* The second half of focusCell: the cell is recorded, then focused.
RecordAndFocus(blurred, id, behs) ==
    Sequenced(blurred,
        PluginCellCommand([blurred.fs EXCEPT !.focusedCell = id], id, "focus", behs))

\* focusCell that sends the focus before the blur of the cell focused so far.
FocusCellFocusFirst(fs, id, behs) ==
    IF fs.focusedCell = None THEN RecordAndFocus(Done(fs, <<>>), id, behs)
    ELSE Sequenced(RecordAndFocus(Done(fs, <<>>), id, behs),
                   BlurCell(RecordAndFocus(Done(fs, <<>>), id, behs).fs,
                            fs.focusedCell, behs))

FocusCell(fs, id, behs) ==
    RecordAndFocus(
        IF fs.focusedCell # None THEN BlurCell(fs, fs.focusedCell, behs)
        ELSE Done(fs, <<>>),
        id, behs)

\* tableAPIs.getCell(id)?.<side>: the neighbour of a registered cell.
Neighbour(id, direction) ==
    CASE direction = "ArrowUp" -> cellRegistry[id].top
      [] direction = "ArrowDown" -> cellRegistry[id].bottom
      [] direction = "ArrowLeft" -> cellRegistry[id].left
      [] direction = "ArrowRight" -> cellRegistry[id].right
      [] OTHER -> None

HandleNavigation(fs, direction, behs) ==
    IF fs.focusedCell = None THEN Done(fs, <<>>)
    ELSE IF Neighbour(fs.focusedCell, direction) # None
    THEN FocusCell(fs, Neighbour(fs.focusedCell, direction), behs)
    ELSE Done(fs, <<>>)

\* FocusPlugin.onBeforeCellCommand; it returns true on every path.
OnBeforeCellCommand(fs, command, behs) ==
    IF FocusPluginName \notin apisSet THEN Done(fs, <<>>)
    ELSE IF command.targetId # None /\ command.name = "click"
    THEN FocusCell(fs, command.targetId, behs)
    ELSE IF command.targetId = None /\ command.name = "keydown"
            /\ IsArrow(command.payload)
    THEN HandleNavigation(fs, command.payload, behs)
    ELSE Done(fs, <<>>)

\* The interceptor calls `trace`, then the rest of the chain.
ChainResult(cont, trace, fs) == [cont |-> cont, trace |-> trace, fs |-> fs]

Chained(trace, rest) == ChainResult(rest.cont, trace \o rest.trace, rest.fs)

\* runPluginChain over a plugin array that holds FocusPlugin: its
\* interceptor runs the dispatches it makes to completion before the loop
\* goes on to the next plugin.
RECURSIVE FocusRunPluginChain(_, _, _, _, _)
RECURSIVE AfterFocusPlugin(_, _, _, _, _)
AfterFocusPlugin(plugins, command, behs, own, i) ==
    Chained(<<Event("onBeforeCellCommand", plugins[i], command, "true")>> \o own.trace,
            FocusRunPluginChain(plugins, command, behs, own.fs, i + 1))

RECURSIVE AfterOtherPlugin(_, _, _, _, _, _)
AfterOtherPlugin(plugins, command, behs, fs, ret, i) ==
    IF ret = "false"
    THEN ChainResult(FALSE, <<Event("onBeforeCellCommand", plugins[i], command, ret)>>, fs)
    ELSE Chained(<<Event("onBeforeCellCommand", plugins[i], command, ret)>>,
                 FocusRunPluginChain(plugins, command, behs, fs, i + 1))

FocusRunPluginChain(plugins, command, behs, fs, i) ==
    IF i > Len(plugins) THEN ChainResult(TRUE, <<>>, fs)
    ELSE IF command.originPlugin = plugins[i]
    THEN FocusRunPluginChain(plugins, command, behs, fs, i + 1)
    ELSE IF plugins[i] = FocusPluginName
    THEN AfterFocusPlugin(plugins, command, behs,
                          OnBeforeCellCommand(fs, command, behs), i)
    ELSE AfterOtherPlugin(plugins, command, behs, fs,
                          behs[command.name][plugins[i]], i)

\* CellCommandRegistry.dispatch of a command of the host.
FocusDelivered(chain, delivery) ==
    Done([chain.fs EXCEPT !.focusedCells = CellHandlers(@, delivery, 1)],
         chain.trace \o delivery)

FocusDeliver(c, chain) ==
    FocusDelivered(chain,
        IF chain.cont THEN DeliverToCell(c, "ok", "ok").trace ELSE <<>>)

FocusDispatchStamped(c, behs) ==
    FocusDeliver(c,
        FocusRunPluginChain(busPlugins["cell"], c, behs,
                            FocusState(focusedCell, focusedCells), 1))

FocusDispatch(command, behs) == FocusDispatchStamped(Stamp(command), behs)

\* The call of the host: what it did, and the focus before it.
FocusCall(op, arg, command, d) ==
    /\ focusedCell' = d.fs.focusedCell
    /\ focusedCells' = d.fs.focusedCells
    /\ lastCall' = Call(op, arg, command, d.trace, FocusState(focusedCell, focusedCells))
    /\ UNCHANGED <<busVars, coreVars, gridVars>>

ClickCommand(cellId) == Command("click", cellId, None, Now, None)

\* TableCore.convertMouseEventToCommand(cellId, 'click', event).
ConvertMouseEventToCommand(cellId, behs) ==
    FocusCall("click", cellId, ClickCommand(cellId),
              FocusDispatch(ClickCommand(cellId), behs))

\* A keyboardCommand that has the focused cell as its target.
KeyboardCommandToFocused(eventName, key) == Command(eventName, focusedCell, None, Now, key)

\* The keyboardCommand of dispatchKeyboardCommand; key is event.key.
KeyboardCommand(eventName, key) == Command(eventName, None, None, Now, key)

\* TableCore.dispatchKeyboardCommand(eventName, event).
DispatchKeyboardCommand(eventName, key, behs) ==
    IF eventName \in {"keydown", "keyup"}
    THEN FocusCall("keyboard", eventName, KeyboardCommand(eventName, key),
                   FocusDispatch(KeyboardCommand(eventName, key), behs))
    ELSE /\ lastCall' = Call("keyboard", eventName, NoCommand, <<>>,
                             FocusState(focusedCell, focusedCells))
         /\ UNCHANGED <<busVars, coreVars, gridVars, focusVars>>

\* ---------------------------------------------------------- specifications
\* No row has been created and nothing has rendered.
NoRows ==
    /\ rowRegistry = <<>>
    /\ cellRegistry = NoCells
    /\ gridHandlers = [cell |-> {}, row |-> {}]
    /\ rowsCreated = 0
    /\ mounted = {}
    /\ gridRows = {}
    /\ linkedAcross = {}
    /\ timers = {}

\* FocusPlugin after construction, and no cell component focused.
NoFocus == focusedCell = None /\ focusedCells = {}

IndexArgs(belowIndex, aboveIndex) == [belowIndex |-> belowIndex, aboveIndex |-> aboveIndex]

GridInit == NoRows /\ indexArgs = IndexArgs(None, None)

Init ==
    /\ handlers = NoHandlers
    /\ busPlugins = [k \in Kinds |-> <<>>]
    /\ pmPlugins = <<>>
    /\ initializationOrder = <<>>
    /\ apisSet = {}
    /\ spaceRegistry = <<>>
    /\ lastCall = NoCall
    /\ registered = NoHandlers
    /\ NoFocus
    /\ GridInit

\* The commands the environment dispatches.
Commands ==
    {Command(n, t, o, ts, None) :
        n \in CmdNames, t \in Targets \cup {None}, o \in Names \cup {None},
        ts \in {Unset, Given}}

\* What each plugin of S does, the plugins that are not called left at dflt.
ChoicesOver(S, vals, dflt) ==
    {[n \in Names |-> IF n \in S THEN f[n] ELSE dflt] : f \in [S -> vals]}

\* What the handler does on its first and, after a throw, second call.
HandlerOutcomes == {<<"ok", "ok">>, <<"throw", "ok">>, <<"throw", "throw">>}

\* A call returns to its caller before the next one is made: the history
\* of the call is dropped.
Return ==
    /\ lastCall.op # None
    /\ lastCall' = NoCall
    /\ UNCHANGED <<busVars, coreVars, registered, focusVars, gridVars>>

Idle == lastCall.op = None

\* The three registries share no state: a behaviour of SpecBus registers
\* handlers on one of them.
OthersEmpty(kind) == \A k \in Kinds \ {kind} : handlers[k] = NoHandlers[k]

BusRegister ==
    /\ Idle
    /\ UNCHANGED gridVars
    /\ \E k \in Kinds, t \in Targets, h \in HandlerIds :
           /\ OthersEmpty(k)
           /\ Register(k, t, h)
           /\ registered' = [registered EXCEPT ![k][t] = h]
           /\ UNCHANGED focusVars

BusUnregister ==
    /\ Idle
    /\ UNCHANGED gridVars
    /\ \E k \in Kinds, t \in Targets :
           /\ OthersEmpty(k)
           /\ Unregister(k, t)
           /\ registered' = [registered EXCEPT ![k][t] = None]
           /\ UNCHANGED focusVars

BusSetPlugins ==
    /\ Idle
    /\ UNCHANGED gridVars
    /\ \E ps \in DistinctSeqs(Names) : SetPlugins(ps)
    /\ UNCHANGED <<registered, focusVars>>

BusDispatch ==
    /\ Idle
    /\ UNCHANGED gridVars
    /\ \E k \in {j \in Kinds : OthersEmpty(j)}, c \in Commands,
          beh \in ChoicesOver(Range(busPlugins["cell"]), Returns, "undefined"),
          hb \in HandlerOutcomes :
           Dispatch(k, c, beh, hb[1], hb[2])
    /\ UNCHANGED <<registered, focusVars>>

NextBus == BusRegister \/ BusUnregister \/ BusSetPlugins \/ BusDispatch \/ Return

SpecBus == Init /\ [][NextBus]_vars

\* The host adds its plugins and then brings the table up (SuperGrid's
\* mount effect): plugins are added and removed before the first bring-up
\* that initializes a plugin.
BeforeBringUp == apisSet = {} /\ \A k \in Kinds : busPlugins[k] = <<>>

HookOutcomes == {"ok", "throw", "absent"}

CoreAddPlugin ==
    /\ Idle /\ BeforeBringUp
    /\ UNCHANGED gridVars
    /\ \E n \in Names, d \in DepLists : AddPlugin(n, d)
    /\ UNCHANGED <<registered, focusVars>>

CoreRemovePlugin ==
    /\ Idle /\ BeforeBringUp
    /\ UNCHANGED gridVars
    /\ \E n \in Names, db \in HookOutcomes : RemovePlugin(n, db)
    /\ UNCHANGED <<registered, focusVars>>

CoreInitializePlugins ==
    /\ Idle
    /\ UNCHANGED gridVars
    /\ \E ib \in ChoicesOver(PluginNames(pmPlugins), HookOutcomes, "absent") :
           InitializePlugins(ib)
    /\ UNCHANGED <<registered, focusVars>>

CoreDestroy ==
    /\ Idle
    /\ UNCHANGED gridVars
    /\ \E db \in ChoicesOver(Range(initializationOrder), HookOutcomes, "absent") :
           Destroy(db)
    /\ UNCHANGED <<registered, focusVars>>

\* Once the table is up, rows and cells register their handlers and
\* commands flow.
CoreRegister ==
    /\ Idle /\ ~BeforeBringUp
    /\ UNCHANGED gridVars
    /\ \E k \in {j \in Kinds : OthersEmpty(j)} :
           /\ Register(k, "t1", "h1")
           /\ registered' = [registered EXCEPT ![k]["t1"] = "h1"]
           /\ UNCHANGED focusVars

\* Commands from the host and from each plugin's capability object, with
\* interceptors that either pass or block.
CoreDispatch ==
    /\ Idle /\ ~BeforeBringUp
    /\ UNCHANGED gridVars
    /\ \E k \in Kinds, o \in Names \cup {None},
          beh \in ChoicesOver(Range(busPlugins["cell"]), {"undefined", "false"}, "undefined") :
           Dispatch(k, Command("edit", "t1", o, Unset, None), beh, "ok", "ok")
    /\ UNCHANGED <<registered, focusVars>>

\* The plugin sets the host can have registered: up to three plugins, in
\* any insertion order, each with any of the dependency lists.
PluginSets ==
    UNION {{[i \in 1..Len(ns) |-> Plugin(ns[i], ds[i])] : ds \in [1..Len(ns) -> DepLists]}
               : ns \in DistinctSeqs(Names)}

\* The resolver on every plugin set: PluginManager.initializePlugins
\* applied to the set registered.
InitResolver ==
    /\ handlers = NoHandlers
    /\ busPlugins = [k \in Kinds |-> <<>>]
    /\ pmPlugins \in PluginSets
    /\ initializationOrder = <<>>
    /\ apisSet = {}
    /\ spaceRegistry = <<>>
    /\ lastCall = NoCall
    /\ registered = NoHandlers
    /\ NoFocus
    /\ GridInit

ResolverInitializePlugins ==
    /\ Idle
    /\ UNCHANGED gridVars
    /\ \E ib \in ChoicesOver(PluginNames(pmPlugins), HookOutcomes, "absent") :
           PMInitializePlugins(ib)
    /\ UNCHANGED <<registered, focusVars>>

ResolverRemovePlugin ==
    /\ Idle
    /\ UNCHANGED gridVars
    /\ initializationOrder # <<>>
    /\ \E n \in Names : RemovePlugin(n, "ok")
    /\ UNCHANGED <<registered, focusVars>>

ResolverDestroy ==
    /\ Idle
    /\ UNCHANGED gridVars
    /\ initializationOrder # <<>>
    /\ \E db \in ChoicesOver(Range(initializationOrder), HookOutcomes, "absent") :
           Destroy(db)
    /\ UNCHANGED <<registered, focusVars>>

NextResolver ==
    ResolverInitializePlugins \/ ResolverRemovePlugin \/ ResolverDestroy \/ Return

SpecResolver == InitResolver /\ [][NextResolver]_vars

\* The grid after the bring-up of plugins A and B, B depending on A: the
\* spaces of A and B are chained, the three registries hold <<A, B>>, and
\* no row exists yet.  Rows are then created in the spaces, rendered,
\* linked and destroyed.
BroughtUp == <<Plugin("A", <<>>), Plugin("B", <<"A">>)>>

InitRows ==
    /\ handlers = NoHandlers
    /\ busPlugins = [k \in Kinds |-> GetPlugins(BroughtUp)]
    /\ pmPlugins = BroughtUp
    /\ initializationOrder = GetPlugins(BroughtUp)
    /\ apisSet = PluginNames(BroughtUp)
    /\ spaceRegistry = CreatePluginSpaces(<<>>, GetPlugins(BroughtUp), 1)
    /\ lastCall = NoCall
    /\ registered = NoHandlers
    /\ NoFocus
    /\ GridInit

RowSpaces == {SpaceId(n) : n \in PluginNames(BroughtUp)}

\* The row ids handed out so far.
CreatedRows == {RowIdPool[i] : i \in 1..rowsCreated}

Positions == {AtTop, AtBottom} \cup {After(r) : r \in CreatedRows}

\* The rows of a behaviour of SpecRows.
GridRowIds == {"r1", "r2", "r3"}

RowsCreate ==
    /\ Idle
    /\ rowsCreated < Len(RowIdPool)
    /\ RowIdPool[rowsCreated + 1] \in GridRowIds
    /\ \E spaceId \in RowSpaces, position \in Positions :
           CreateRowInSpace(spaceId, position)
    /\ UNCHANGED <<registered, focusVars>>

RowsRender ==
    /\ Idle
    /\ \E rowId \in Range(RowList(rowRegistry)) \cup mounted : RenderRow(rowId)
    /\ UNCHANGED <<registered, focusVars>>

RowsLinkCells ==
    /\ Idle
    /\ \E spaceId \in RowSpaces :
           /\ Len(RowsInSpaceSorted(rowRegistry, spaceId)) > 1
           /\ LinkSpaceCells(spaceId)
    /\ UNCHANGED <<registered, focusVars>>

RowsDestroy ==
    /\ Idle
    /\ \E rowId \in CreatedRows,
          beh \in ChoicesOver(Range(busPlugins["row"]), {"undefined", "false"}, "undefined") :
           DestroyRow(rowId, beh)
    /\ UNCHANGED <<registered, focusVars>>

\* The host renders SuperGrid again, and the Spaces query the registry.
RowsRerender ==
    /\ Idle
    /\ gridRows # {}
    /\ RerenderGrid
    /\ UNCHANGED <<registered, focusVars>>

RowsRequery ==
    /\ Idle
    /\ RequerySpaces
    /\ UNCHANGED <<registered, focusVars>>

NextRows ==
    \/ RowsCreate \/ RowsRender \/ RowsLinkCells \/ RowsDestroy
    \/ RowsRerender \/ RowsRequery \/ Return

SpecRows == InitRows /\ [][NextRows]_vars

\* The space coordinator alone: createPluginSpace called for owners that
\* have no space yet, in any order.
SpaceOwners == Names \cup {"D", "E"}

SpacesCreate ==
    /\ Idle
    /\ \E owner \in SpaceOwners :
           /\ SpaceId(owner) \notin SpaceIds(spaceRegistry)
           /\ spaceRegistry' = CreatePluginSpace(spaceRegistry, owner)
    /\ UNCHANGED <<busVars, pmPlugins, initializationOrder, apisSet, lastCall,
                   registered, focusVars, gridVars>>

NextSpaces == SpacesCreate

SpecSpaces == Init /\ [][NextSpaces]_vars

\* The order keys of one segment: rows inserted at the top and at the
\* bottom of the space of A, which starts empty.
KeysInsert ==
    /\ Idle
    /\ rowsCreated < Len(RowIdPool)
    /\ \E position \in {AtTop, AtBottom} : CreateRowInSpace(SpaceId("A"), position)
    /\ UNCHANGED <<registered, focusVars>>

NextKeys == KeysInsert \/ Return

SpecKeys == InitRows /\ [][NextKeys]_vars

\* generateFractionalIndex on its own: the call is made with a lower and a
\* higher key, in the order of localeCompare, drawn from keys around the
\* places where the digits carry and where the width changes.
BetweenKeys ==
    {PadStart(NumberToString(n), PADDING_LENGTH) :
        n \in {1000, 9999, 10000, 49999, 50000, 50001, 60000, 90000, 99999,
               100000, 100001, 110000}}

KeyPairs ==
    {IndexArgs(lower, higher) : lower \in BetweenKeys, higher \in BetweenKeys}

InitBetween ==
    /\ handlers = NoHandlers
    /\ busPlugins = [k \in Kinds |-> <<>>]
    /\ pmPlugins = <<>>
    /\ initializationOrder = <<>>
    /\ apisSet = {}
    /\ spaceRegistry = <<>>
    /\ lastCall = NoCall
    /\ registered = NoHandlers
    /\ NoFocus
    /\ NoRows
    /\ indexArgs \in {a \in KeyPairs : StringGreater(a.aboveIndex, a.belowIndex)}

Between ==
    /\ Idle
    /\ lastCall' = Call("generateFractionalIndex", None, NoCommand, <<>>,
                        GenerateFractionalIndex(indexArgs.belowIndex, indexArgs.aboveIndex))
    /\ UNCHANGED <<busVars, coreVars, registered, focusVars, gridVars>>

NextBetween == Between \/ Return

SpecBetween == InitBetween /\ [][NextBetween]_vars

\* One segment filled and emptied: rows are added at the bottom of one
\* space, and then destroyed in the order they were added.
SegmentInsert ==
    /\ Idle
    /\ rowsCreated < Len(RowIdPool)
    /\ Len(rowRegistry) = rowsCreated
    /\ \E spaceId \in RowSpaces :
           /\ rowRegistry # <<>> => rowRegistry[1].spaceId = spaceId
           /\ HandleAddRow(spaceId, "bottom")
    /\ UNCHANGED <<registered, focusVars>>

SegmentDestroy ==
    /\ Idle
    /\ rowRegistry # <<>>
    /\ \E beh \in ChoicesOver(Range(busPlugins["row"]), {"undefined", "false"}, "undefined") :
           DestroyRow(rowRegistry[1].id, beh)
    /\ UNCHANGED <<registered, focusVars>>

SegmentTimer ==
    /\ Idle
    /\ \E timer \in timers : HandleCrossSpaceLinking(timer)
    /\ UNCHANGED <<registered, focusVars>>

NextSegment == SegmentInsert \/ SegmentDestroy \/ SegmentTimer \/ Return

SpecSegment == InitRows /\ [][NextSegment]_vars

\* Rows added to the spaces of three plugins through the space command
\* addRow, the spaces rendering and the timers of the inserts firing.
BroughtUpThree == <<Plugin("A", <<>>), Plugin("B", <<"A">>), Plugin("C", <<"B">>)>>

InitCross ==
    /\ handlers = NoHandlers
    /\ busPlugins = [k \in Kinds |-> GetPlugins(BroughtUpThree)]
    /\ pmPlugins = BroughtUpThree
    /\ initializationOrder = GetPlugins(BroughtUpThree)
    /\ apisSet = PluginNames(BroughtUpThree)
    /\ spaceRegistry = CreatePluginSpaces(<<>>, GetPlugins(BroughtUpThree), 1)
    /\ lastCall = NoCall
    /\ registered = NoHandlers
    /\ NoFocus
    /\ GridInit

CrossInsert ==
    /\ Idle
    /\ rowsCreated < Len(RowIdPool)
    /\ RowIdPool[rowsCreated + 1] \in GridRowIds
    /\ \E spaceId \in SpaceIds(spaceRegistry), position \in {"top", "bottom"} :
           HandleAddRow(spaceId, position)
    /\ UNCHANGED <<registered, focusVars>>

CrossRender ==
    /\ Idle
    /\ \E spaceId \in SpaceIds(spaceRegistry) : RenderSpace(spaceId)
    /\ UNCHANGED <<registered, focusVars>>

CrossTimer ==
    /\ Idle
    /\ \E timer \in timers : HandleCrossSpaceLinking(timer)
    /\ UNCHANGED <<registered, focusVars>>

NextCross == CrossInsert \/ CrossRender \/ CrossTimer \/ Return

SpecCross == InitCross /\ [][NextCross]_vars

\* The same with what the scheduler guarantees: a timer that was set fires,
\* a Space whose rowIds state was set renders, and a call returns.
SpecCrossFair ==
    /\ SpecCross
    /\ WF_vars(CrossTimer)
    /\ WF_vars(CrossRender)
    /\ WF_vars(Return)

\* The table's Space mounts with up to MaxInitialData items of data, and
\* rows are then added to the plugins' spaces by space commands.
MaxInitialData == 3

TableInitialData ==
    /\ Idle
    /\ rowsCreated = 0
    /\ \E count \in 1..MaxInitialData : InitializeWithData(TableSpace, count)
    /\ UNCHANGED <<registered, focusVars>>

TableInsert ==
    /\ Idle
    /\ rowsCreated < MaxInitialData + 2
    /\ \E spaceId \in SpaceIds(spaceRegistry), position \in {"top", "bottom"} :
           HandleAddRow(spaceId, position)
    /\ UNCHANGED <<registered, focusVars>>

TableTimer ==
    /\ Idle
    /\ \E timer \in timers : HandleCrossSpaceLinking(timer)
    /\ UNCHANGED <<registered, focusVars>>

NextTable == TableInitialData \/ TableInsert \/ TableTimer \/ Return

SpecTable == InitRows /\ [][NextTable]_vars

\* Rows added by the plugins through createRow next to rows added by space
\* commands addressed to the spaces, with the linking timers.
OwnInsert ==
    /\ Idle
    /\ rowsCreated < Len(RowIdPool)
    /\ RowIdPool[rowsCreated + 1] \in GridRowIds
    /\ \E spaceId \in SpaceIds(spaceRegistry), position \in {"top", "bottom"} :
           HandleAddRow(spaceId, position)
    /\ UNCHANGED <<registered, focusVars>>

OwnCreateRow ==
    /\ Idle
    /\ rowsCreated < Len(RowIdPool)
    /\ RowIdPool[rowsCreated + 1] \in GridRowIds
    /\ \E pluginName \in apisSet, position \in {"top", "bottom", None},
          beh \in ChoicesOver(Range(busPlugins["space"]), {"undefined", "false"}, "undefined") :
           CreateRow(pluginName, position, beh)
    /\ UNCHANGED <<registered, focusVars>>

OwnTimer ==
    /\ Idle
    /\ \E timer \in timers : HandleCrossSpaceLinking(timer)
    /\ UNCHANGED <<registered, focusVars>>

NextOwn == OwnInsert \/ OwnCreateRow \/ OwnTimer \/ Return

SpecOwn == InitRows /\ [][NextOwn]_vars

\* The capability objects of the plugins A and B after bring-up: handlers
\* register and each plugin issues commands of every kind, to any target,
\* built on any command.
APIRegister ==
    /\ Idle
    /\ UNCHANGED gridVars
    /\ \E k \in {j \in Kinds : OthersEmpty(j)} :
           /\ Register(k, "t1", "h1")
           /\ registered' = [registered EXCEPT ![k]["t1"] = "h1"]
           /\ UNCHANGED focusVars

APICreateCommand ==
    /\ Idle
    /\ UNCHANGED gridVars
    /\ \E pluginName \in apisSet, k \in Kinds, targetId \in Targets, c \in Commands,
          beh \in ChoicesOver(Range(busPlugins["cell"]), {"undefined", "false"}, "undefined"),
          hb \in HandlerOutcomes :
           CreateCommand(pluginName, k, targetId, c, beh, hb[1], hb[2])
    /\ UNCHANGED <<registered, focusVars>>

NextAPI == APIRegister \/ APICreateCommand \/ Return

SpecAPI == InitRows /\ [][NextAPI]_vars

\* The grid after the bring-up of plugins A, FocusPlugin and B, in that
\* order: rows are created in the space of A, rendered and linked, the
\* user clicks cells that are rendered and presses keys.
FocusBroughtUp ==
    <<Plugin("A", <<>>), Plugin(FocusPluginName, <<>>), Plugin("B", <<>>)>>

InitFocus ==
    /\ handlers = NoHandlers
    /\ busPlugins = [k \in Kinds |-> GetPlugins(FocusBroughtUp)]
    /\ pmPlugins = FocusBroughtUp
    /\ initializationOrder = GetPlugins(FocusBroughtUp)
    /\ apisSet = PluginNames(FocusBroughtUp)
    /\ spaceRegistry = CreatePluginSpaces(<<>>, GetPlugins(FocusBroughtUp), 1)
    /\ lastCall = NoCall
    /\ registered = NoHandlers
    /\ NoFocus
    /\ GridInit

FocusRowIds == {"r1", "r2"}

\* The command names of a behaviour of SpecFocus, and what plugins A and B
\* do with a command of each name during one call of the host: they let
\* every command pass, or one of them blocks the commands of one name.
FocusCmdNames == {"click", "keydown", "keyup", "blur", "focus"}

Blocks(plugin, name) ==
    [n \in FocusCmdNames |->
        [q \in Names |-> IF n = name /\ q = plugin THEN "false" ELSE "undefined"]]

FocusBehaviours(names) ==
    {Blocks(None, None)} \cup {Blocks(q, n) : q \in {"A", "B"}, n \in names}

FocusCreate ==
    /\ Idle
    /\ rowsCreated < Len(RowIdPool)
    /\ RowIdPool[rowsCreated + 1] \in FocusRowIds
    /\ \E position \in {AtTop, AtBottom} : CreateRowInSpace(SpaceId("A"), position)
    /\ UNCHANGED <<registered, focusVars>>

FocusRender ==
    /\ Idle
    /\ \E rowId \in Range(RowList(rowRegistry)) : RenderRow(rowId)
    /\ UNCHANGED <<registered, focusVars>>

FocusLinkCells ==
    /\ Idle
    /\ Len(RowsInSpaceSorted(rowRegistry, SpaceId("A"))) > 1
    /\ LinkSpaceCells(SpaceId("A"))
    /\ UNCHANGED <<registered, focusVars>>

FocusClick ==
    /\ Idle
    /\ \E cellId \in gridHandlers.cell,
          behs \in FocusBehaviours({"click", "blur", "focus"}) :
           ConvertMouseEventToCommand(cellId, behs)
    /\ UNCHANGED registered

FocusKeyboard ==
    /\ Idle
    /\ \/ \E key \in ArrowKeys \cup {"a"},
             behs \in FocusBehaviours({"keydown", "blur", "focus"}) :
              DispatchKeyboardCommand("keydown", key, behs)
       \/ \E eventName \in {"keyup", "keypress"}, behs \in FocusBehaviours({"keyup"}) :
              DispatchKeyboardCommand(eventName, "ArrowDown", behs)
    /\ UNCHANGED registered

NextFocus ==
    \/ FocusCreate \/ FocusRender \/ FocusLinkCells \/ FocusClick
    \/ FocusKeyboard \/ Return

SpecFocus == InitFocus /\ [][NextFocus]_vars

\* The plugins after the bring-up of A, B (depending on A) and C: they are
\* removed one by one or torn down together, and commands are dispatched
\* on the three buses before and after.
RemovalBroughtUp == <<Plugin("A", <<>>), Plugin("B", <<"A">>), Plugin("C", <<>>)>>

InitRemoval ==
    /\ handlers = NoHandlers
    /\ busPlugins = [k \in Kinds |-> GetPlugins(RemovalBroughtUp)]
    /\ pmPlugins = RemovalBroughtUp
    /\ initializationOrder = GetPlugins(RemovalBroughtUp)
    /\ apisSet = PluginNames(RemovalBroughtUp)
    /\ spaceRegistry = CreatePluginSpaces(<<>>, GetPlugins(RemovalBroughtUp), 1)
    /\ lastCall = NoCall
    /\ registered = NoHandlers
    /\ NoFocus
    /\ GridInit

RemovalRemovePlugin ==
    /\ Idle
    /\ UNCHANGED gridVars
    /\ \E n \in Names, db \in HookOutcomes : RemovePlugin(n, db)
    /\ UNCHANGED <<registered, focusVars>>

RemovalDestroy ==
    /\ Idle
    /\ pmPlugins # <<>>
    /\ UNCHANGED gridVars
    /\ \E db \in ChoicesOver(Range(initializationOrder), {"ok", "throw"}, "absent") :
           Destroy(db)
    /\ UNCHANGED <<registered, focusVars>>

RemovalDispatch ==
    /\ Idle
    /\ UNCHANGED gridVars
    /\ \E k \in Kinds :
           \E beh \in ChoicesOver(Range(busPlugins[k]), {"undefined", "false"}, "undefined") :
               Dispatch(k, Command("edit", "t1", None, Unset, None), beh, "ok", "ok")
    /\ UNCHANGED <<registered, focusVars>>

NextRemoval ==
    \/ RemovalRemovePlugin \/ RemovalDestroy \/ CoreRegister \/ RemovalDispatch \/ Return

SpecRemoval == InitRemoval /\ [][NextRemoval]_vars

\* generateInitialFractionalIndices on its own: the call is made with a
\* count of 1 to MaxCount, and the comparator of the rows' sort is applied
\* to two of the keys returned.
MaxCount == 12

InitialArgs(count) == [count |-> count]

InitInitial ==
    /\ handlers = NoHandlers
    /\ busPlugins = [k \in Kinds |-> <<>>]
    /\ pmPlugins = <<>>
    /\ initializationOrder = <<>>
    /\ apisSet = {}
    /\ spaceRegistry = <<>>
    /\ lastCall = NoCall
    /\ registered = NoHandlers
    /\ NoFocus
    /\ NoRows
    /\ indexArgs \in {InitialArgs(count) : count \in 1..MaxCount}

InitialGenerate ==
    /\ Idle
    /\ lastCall' = Call("generateInitialFractionalIndices", indexArgs.count, NoCommand,
                        <<>>, GenerateInitialFractionalIndices(indexArgs.count))
    /\ UNCHANGED <<busVars, coreVars, registered, focusVars, gridVars>>

\* The comparator of getAllRowsSortedByIndex and of the Space's query on
\* the rows of items a and b: b.fractionalIndex.localeCompare(a.fractionalIndex).
InitialCompare ==
    /\ Idle
    /\ \E a, b \in 1..indexArgs.count :
           lastCall' = Call("compare", <<a, b>>, NoCommand, <<>>,
                            LocaleCompare(GenerateInitialFractionalIndices(indexArgs.count)[b],
                                          GenerateInitialFractionalIndices(indexArgs.count)[a]))
    /\ UNCHANGED <<busVars, coreVars, registered, focusVars, gridVars>>

NextInitial == InitialGenerate \/ InitialCompare \/ Return

SpecInitial == InitInitial /\ [][NextInitial]_vars

NextPlugins ==
    \/ CoreAddPlugin \/ CoreRemovePlugin \/ CoreInitializePlugins \/ CoreDestroy
    \/ CoreRegister \/ CoreDispatch \/ Return

SpecPlugins == Init /\ [][NextPlugins]_vars

\* ------------------------------------------------------------------ claims
\* The most recent call, when it is a dispatch.
IsDispatch == lastCall.op = "dispatch"

Tr == lastCall.trace

IsInterceptor(e) ==
    e.ev \in {"onBeforeCellCommand", "onBeforeRowCommand", "onBeforeSpaceCommand"}

IsHandlerCall(e) == e.ev = "handler"

InterceptorCalls == SelectSeq(Tr, IsInterceptor)

HandlerCalls == SelectSeq(Tr, IsHandlerCall)

\* The chain of the bus dispatched on, and its plugins other than the
\* command's originPlugin.
Chain == busPlugins[lastCall.kind]

Eligible == SelectSeq(Chain, LAMBDA n : n # lastCall.cmd.originPlugin)

TargetHandler == GetHandler(lastCall.kind, lastCall.cmd.targetId)

SameCommand(c, d) ==
    c.name = d.name /\ c.targetId = d.targetId /\ c.originPlugin = d.originPlugin
        /\ c.payload = d.payload

SomeoneBlocked == \E i \in 1..Len(Tr) : IsInterceptor(Tr[i]) /\ Tr[i].ret = "false"

\* After the interceptor call at position i of the history the chain goes
\* on: the next call is the next plugin's interceptor or, after the last
\* plugin, the handler registered for the target.
ChainContinuesAfter(i) ==
    LET k == IndexOf(Eligible, Tr[i].who) IN
    IF k < Len(Eligible)
    THEN i < Len(Tr) /\ IsInterceptor(Tr[i + 1]) /\ Tr[i + 1].who = Eligible[k + 1]
    ELSE TargetHandler # None =>
            /\ i < Len(Tr)
            /\ IsHandlerCall(Tr[i + 1])
            /\ Tr[i + 1].who = TargetHandler
            /\ SameCommand(Tr[i + 1].cmd, lastCall.cmd)

\* C1: on every bus, an interceptor that returns false is the last call of
\* the dispatch (no later plugin, no handler); one that returns true or
\* undefined is followed by the next plugin of the chain or, at the end of
\* the chain, by the target's handler; and when nobody returns false a
\* registered handler is invoked.
C1_BlockStopsDispatch ==
    IsDispatch =>
        /\ \A i \in 1..Len(Tr) :
               (IsInterceptor(Tr[i]) /\ Tr[i].ret = "false") => i = Len(Tr)
        /\ \A i \in 1..Len(Tr) :
               (IsInterceptor(Tr[i]) /\ Tr[i].ret \in {"true", "undefined"})
                   => ChainContinuesAfter(i)
        /\ (~SomeoneBlocked /\ TargetHandler # None) => HandlerCalls # <<>>

C1_Witness ==
    /\ IsDispatch
    /\ Len(Chain) = 3
    /\ TargetHandler # None
    /\ Len(Tr) = 2
    /\ Tr[1].ret = "true"
    /\ Tr[2].ret = "false"

\* C3: the interceptor of command.originPlugin is never invoked, and the
\* interceptors invoked are, in chain order and once each, the other
\* plugins up to and including the first that returns false (all the other
\* plugins when nobody does).
C3_BypassRule ==
    IsDispatch =>
        /\ \A i \in 1..Len(Tr) :
               IsInterceptor(Tr[i]) => Tr[i].who # lastCall.cmd.originPlugin
        /\ Len(InterceptorCalls) <= Len(Eligible)
        /\ \A i \in 1..Len(InterceptorCalls) : InterceptorCalls[i].who = Eligible[i]
        /\ \A i \in 1..Len(InterceptorCalls) :
               InterceptorCalls[i].ret = "false" => i = Len(InterceptorCalls)
        /\ ~SomeoneBlocked => Len(InterceptorCalls) = Len(Eligible)

C3_Witness ==
    /\ IsDispatch
    /\ Len(Chain) = 3
    /\ lastCall.cmd.originPlugin = Chain[2]
    /\ Len(InterceptorCalls) = 2
    /\ InterceptorCalls[2].who = Chain[3]

\* The handler call that threw on the dispatched command, if any.
HandlerThrewAt(i) ==
    IsHandlerCall(Tr[i]) /\ Tr[i].cmd.name # "error" /\ Tr[i].ret = "throw"

IsErrorDelivery(e, first) ==
    /\ IsHandlerCall(e)
    /\ e.who = first.who
    /\ e.cmd.name = "error"
    /\ e.cmd.targetId = first.cmd.targetId
    /\ e.cmd.payload = TheError

\* C4: when a Cell handler throws, dispatch returns normally, the same
\* handler is invoked exactly once more, with an error command carrying the
\* error, no interceptor sees the error command, and nothing follows that
\* second call, whether it throws or not.
C4_CellErrorCommand ==
    (IsDispatch /\ lastCall.kind = "cell") =>
        \A i \in 1..Len(Tr) :
            HandlerThrewAt(i) =>
                /\ lastCall.result = "returned"
                /\ Len(Tr) = i + 1
                /\ IsErrorDelivery(Tr[i + 1], Tr[i])
                /\ Len(HandlerCalls) = 2
                /\ \A j \in 1..Len(Tr) : IsInterceptor(Tr[j]) => Tr[j].cmd.name # "error"

C4_Witness ==
    /\ IsDispatch
    /\ lastCall.kind = "cell"
    /\ Len(InterceptorCalls) = 2
    /\ Len(HandlerCalls) = 2
    /\ HandlerCalls[1].ret = "throw"
    /\ HandlerCalls[2].ret = "throw"

ReturnedBy(n) ==
    IF \E i \in 1..Len(Tr) : IsInterceptor(Tr[i]) /\ Tr[i].who = n
    THEN LET i == CHOOSE j \in 1..Len(Tr) : IsInterceptor(Tr[j]) /\ Tr[j].who = n
         IN  IF Tr[i].ret = "throw" THEN "undefined" ELSE Tr[i].ret
    ELSE "undefined"

HandlerDid(k) == IF Len(HandlerCalls) >= k THEN HandlerCalls[k].ret ELSE "ok"

Calls(trace) == [i \in 1..Len(trace) |-> <<trace[i].ev, trace[i].who, trace[i].cmd>>]

SomeoneThrew == \E i \in 1..Len(Tr) : IsInterceptor(Tr[i]) /\ Tr[i].ret = "throw"

\* C6: a dispatch in which an interceptor throws makes the same calls, in
\* the same order and with the same commands, and ends the same way, as the
\* dispatch in which that interceptor returns undefined; in particular the
\* call after the throwing interceptor is the next plugin or the handler.
C6_InterceptorsFailOpen ==
    (IsDispatch /\ SomeoneThrew) =>
        LET asUndefined ==
                DispatchOn(lastCall.kind, lastCall.cmd,
                           [n \in Names |-> ReturnedBy(n)], HandlerDid(1), HandlerDid(2))
        IN  /\ Calls(Tr) = Calls(asUndefined.trace)
            /\ (lastCall.result = "returned") = (asUndefined.thrown = None)
            /\ \A i \in 1..Len(Tr) :
                   (IsInterceptor(Tr[i]) /\ Tr[i].ret = "throw") => ChainContinuesAfter(i)

C6_Witness ==
    /\ IsDispatch
    /\ Len(Tr) = 3
    /\ Tr[1].ret = "throw"
    /\ IsInterceptor(Tr[2])
    /\ IsHandlerCall(Tr[3])

\* C7: an unblocked dispatch to target t invokes the handler most recently
\* registered for t and not unregistered since, and no other; when there is
\* none it invokes no handler and returns normally.
C7_LastRegistrationWins ==
    (IsDispatch /\ ~SomeoneBlocked) =>
        LET h == IF lastCall.cmd.targetId \in Targets
                 THEN registered[lastCall.kind][lastCall.cmd.targetId]
                 ELSE None
        IN  /\ lastCall.result = "returned"
            /\ IF h = None THEN HandlerCalls = <<>>
               ELSE /\ HandlerCalls # <<>>
                    /\ \A i \in 1..Len(HandlerCalls) : HandlerCalls[i].who = h
                    /\ SameCommand(HandlerCalls[1].cmd, lastCall.cmd)

C7_Witness ==
    /\ IsDispatch
    /\ lastCall.cmd.targetId = "t1"
    /\ registered[lastCall.kind]["t1"] = "h2"
    /\ registered[lastCall.kind]["t2"] = "h1"
    /\ Len(HandlerCalls) = 1
    /\ HandlerCalls[1].who = "h2"

\* ------------------------------------------------ the dependency relation

\* What a registered plugin declares, and what it requires through the
\* declarations of the plugins it depends on.
DirectDeps(plugins, n) ==
    IF HasPlugin(plugins, n) THEN Range(GetPlugin(plugins, n).dependencies) ELSE {}

RECURSIVE DepClosure(_, _)
DepClosure(plugins, S) ==
    LET T == S \cup UNION {DirectDeps(plugins, m) : m \in S}
    IN  IF T = S THEN S ELSE DepClosure(plugins, T)

Requires(plugins, n) == DepClosure(plugins, DirectDeps(plugins, n))

OnCycle(plugins, n) == HasPlugin(plugins, n) /\ n \in Requires(plugins, n)

HasCycle(plugins) == \E n \in PluginNames(plugins) : OnCycle(plugins, n)

AllResolve(plugins) ==
    \A n \in PluginNames(plugins) : DirectDeps(plugins, n) \subseteq PluginNames(plugins)

InterceptedAt(n) == {i \in 1..Len(Tr) : IsInterceptor(Tr[i]) /\ Tr[i].who = n}

\* C2: in a dispatch after initializePlugins, for registered plugins a and b
\* with b depending directly or transitively on a and neither the origin of
\* the command, every invocation of b's interceptor comes after an invocation
\* of a's, whatever the insertion order; and when b blocks, no handler is
\* invoked.
C2_DependencyOrderedInterception ==
    IsDispatch =>
        \A a \in PluginNames(pmPlugins), b \in PluginNames(pmPlugins) :
            (a # b /\ a \in Requires(pmPlugins, b)
                   /\ lastCall.cmd.originPlugin \notin {a, b}) =>
                /\ \A j \in InterceptedAt(b) : \E i \in InterceptedAt(a) : i < j
                /\ (\E j \in InterceptedAt(b) : Tr[j].ret = "false")
                       => HandlerCalls = <<>>

\* b was added before the a it depends on, blocks, and a ran first.
C2_Witness ==
    /\ IsDispatch
    /\ TargetHandler # None
    /\ HandlerCalls = <<>>
    /\ \E a \in PluginNames(pmPlugins), b \in PluginNames(pmPlugins) :
           /\ a \in DirectDeps(pmPlugins, b)
           /\ IndexOf(GetPlugins(pmPlugins), b) < IndexOf(GetPlugins(pmPlugins), a)
           /\ \E i \in InterceptedAt(a), j \in InterceptedAt(b) :
                  i < j /\ Tr[j].ret = "false"

IsPMInit == lastCall.op = "pmInitializePlugins"

\* C8: when every declared dependency is registered and there is no cycle,
\* the resolver succeeds and its order holds every registered plugin name
\* exactly once, each plugin after all the plugins it depends on.
C8_OrderIsTopological ==
    (IsPMInit /\ AllResolve(pmPlugins) /\ ~HasCycle(pmPlugins)) =>
        /\ lastCall.result = NoError
        /\ Range(initializationOrder) = PluginNames(pmPlugins)
        /\ Len(initializationOrder) = Cardinality(PluginNames(pmPlugins))
        /\ \A n \in PluginNames(pmPlugins) : \A d \in DirectDeps(pmPlugins, n) :
               IndexOf(initializationOrder, d) < IndexOf(initializationOrder, n)

\* Three plugins, the first added depending on the other two, ordered last.
C8_Witness ==
    /\ IsPMInit
    /\ lastCall.result = NoError
    /\ Len(pmPlugins) = 3
    /\ Len(pmPlugins[1].dependencies) = 2
    /\ pmPlugins[3].dependencies = <<>>
    /\ initializationOrder[3] = pmPlugins[1].name

IsInitStep == Idle /\ lastCall'.op = "initializePlugins"

NothingInitialized ==
    /\ lastCall'.trace = <<>>
    /\ UNCHANGED <<spaceRegistry, apisSet, initializationOrder, busPlugins>>

\* C9 as stated: whenever the declared dependencies contain a cycle,
\* initializePlugins fails with the circular-dependency error naming a
\* plugin on a cycle, and no hook is called, no space created, no APIs set
\* and the stored order is unchanged.
C9_CycleGivesCircularError ==
    [][(IsInitStep /\ HasCycle(pmPlugins)) =>
          /\ lastCall'.result.type = "circular"
          /\ OnCycle(pmPlugins, lastCall'.result.plugin)
          /\ NothingInitialized]_vars

\* C9 amended: whenever the declared dependencies contain a cycle,
\* initializePlugins fails and nothing is initialized; the error is the
\* circular-dependency error naming a plugin on a cycle when every declared
\* dependency is registered.
C9_CycleFailsInitialization ==
    [][(IsInitStep /\ HasCycle(pmPlugins)) =>
          /\ lastCall'.result # NoError
          /\ AllResolve(pmPlugins) =>
                 /\ lastCall'.result.type = "circular"
                 /\ OnCycle(pmPlugins, lastCall'.result.plugin)
          /\ NothingInitialized]_vars

\* A failed bring-up of three plugins, two of them on a cycle.
C9_Witness ==
    /\ lastCall.op = "initializePlugins"
    /\ lastCall.result.type = "circular"
    /\ Len(pmPlugins) = 3
    /\ AllResolve(pmPlugins)
    /\ OnCycle(pmPlugins, lastCall.result.plugin)
    /\ \E n \in PluginNames(pmPlugins) : ~OnCycle(pmPlugins, n)
    /\ spaceRegistry = <<>>

\* C10: initializePlugins with a declared dependency that is not registered
\* fails with no hook called and no space created; addPlugin of a name
\* already registered fails and leaves the registered plugins as they were.
C10_ConfigurationErrors ==
    [][/\ (IsInitStep /\ ~AllResolve(pmPlugins)) =>
              /\ lastCall'.result # NoError
              /\ lastCall'.trace = <<>>
              /\ UNCHANGED spaceRegistry
       /\ (Idle /\ lastCall'.op = "addPlugin" /\ HasPlugin(pmPlugins, lastCall'.kind)) =>
              /\ lastCall'.result = ThrownError("duplicate", lastCall'.kind)
              /\ UNCHANGED pmPlugins]_vars

\* A failed bring-up: one plugin's dependency is missing, another plugin
\* has nothing unresolved.
C10_Witness ==
    /\ lastCall.op = "initializePlugins"
    /\ lastCall.result.type = "missing"
    /\ ~HasCycle(pmPlugins)
    /\ Len(pmPlugins) >= 2
    /\ pmPlugins[1].dependencies = <<>>
    /\ spaceRegistry = <<>>

\* A rejected addPlugin: the name is registered, with its dependencies.
C10_DuplicateRejected ==
    /\ lastCall.op = "addPlugin"
    /\ lastCall.result.type = "duplicate"
    /\ HasPlugin(pmPlugins, lastCall.kind)
    /\ GetPlugin(pmPlugins, lastCall.kind).dependencies # <<>>

\* ------------------------------------------------------- rows and cells
RegisteredRows == Range(RowList(rowRegistry))

RowOf(id) == RowGet(rowRegistry, id)

RegisteredCells == {c \in CellIds : CellHas(cellRegistry, c)}

\* C11: in every state, for all registered rows a and b, a.bottom is b
\* exactly when b.top is a.
C11_RowLinksBidirectional ==
    \A a \in RegisteredRows, b \in RegisteredRows :
        (RowOf(a).bottom = b) <=> (RowOf(b).top = a)

\* C12: in every state, for all registered cells a and b, a.right is b
\* exactly when b.left is a, and a.bottom is b exactly when b.top is a.
C12_CellLinksBidirectional ==
    \A a \in RegisteredCells, b \in RegisteredCells :
        /\ (cellRegistry[a].right = b) <=> (cellRegistry[b].left = a)
        /\ (cellRegistry[a].bottom = b) <=> (cellRegistry[b].top = a)

\* ------------------------------------------------------------ the spaces
TopmostSpaces == {i \in 1..Len(spaceRegistry) : spaceRegistry[i].top = None}

BottommostSpaces == {i \in 1..Len(spaceRegistry) : spaceRegistry[i].bottom = None}

\* The ids met from id downwards by bottom pointers, stopping at a space
\* already met or absent.
RECURSIVE WalkDown(_, _)
WalkDown(id, met) ==
    IF id = None \/ id \in Range(met) \/ id \notin SpaceIds(spaceRegistry) THEN met
    ELSE WalkDown(SpaceGet(spaceRegistry, id).bottom, Append(met, id))

ChainFromTop ==
    IF TopmostSpaces = {} THEN <<>>
    ELSE WalkDown(spaceRegistry[CHOOSE i \in TopmostSpaces : TRUE].id, <<>>)

\* C13: once a space exists, exactly one space has no top and exactly one
\* has no bottom, S.bottom is T exactly when T.top is S, and the walk from
\* the topmost space by bottom pointers meets every space and ends at none.
C13_SpacesFormOneChain ==
    spaceRegistry # <<>> =>
        /\ Cardinality(TopmostSpaces) = 1
        /\ Cardinality(BottommostSpaces) = 1
        /\ \A i \in 1..Len(spaceRegistry), j \in 1..Len(spaceRegistry) :
               (spaceRegistry[i].bottom = spaceRegistry[j].id)
                   <=> (spaceRegistry[j].top = spaceRegistry[i].id)
        /\ Range(ChainFromTop) = SpaceIds(spaceRegistry)
        /\ SpaceGet(spaceRegistry, ChainFromTop[Len(ChainFromTop)]).bottom = None

C13_Witness ==
    /\ Len(spaceRegistry) = 5
    /\ Len(ChainFromTop) = 5
    /\ ChainFromTop[1] = SpaceId("E")
    /\ ChainFromTop[5] = SpaceId("A")


PluginSpacesInOrder ==
    [i \in 1..Len(initializationOrder) |-> SpaceId(initializationOrder[i])]

\* C14: after the bring-up (the first initializePlugins that succeeds) the
\* walk from the topmost space by bottom pointers meets the plugin spaces in
\* the dependency order and then the table space, which has no bottom.
C14_ChainIsPluginsThenTable ==
    [][(IsInitStep /\ BeforeBringUp /\ lastCall'.result = NoError) =>
          /\ ChainFromTop' = PluginSpacesInOrder' \o <<TableSpace>>
          /\ TableSpace \in SpaceIds(spaceRegistry')
          /\ SpaceGet(spaceRegistry', TableSpace).bottom = None]_vars

\* ------------------------------------------------------------ order keys
IsCreateStep == Idle /\ lastCall'.op = "createRowInSpace"

\* The row a createRowInSpace step has just registered.
NewRow == RowGet(rowRegistry', lastCall'.result.rowId)

KeysInSpace(spaceId) ==
    {rowRegistry[i].fractionalIndex :
        i \in {j \in 1..Len(rowRegistry) : rowRegistry[j].spaceId = spaceId}}

\* C15: the key given by an insertion at the top compares greater than
\* every key already in the segment, and the key given by an insertion at
\* the bottom compares less than every one of them, under localeCompare.
C15_KeysStrictlyMonotonic ==
    [][IsCreateStep =>
          \A k \in KeysInSpace(lastCall'.kind) :
              /\ lastCall'.result.position = AtTop
                     => LocaleCompare(NewRow.fractionalIndex, k) = 1
              /\ lastCall'.result.position = AtBottom
                     => LocaleCompare(NewRow.fractionalIndex, k) = -1]_vars

\* C16: in every state reached by inserts into any segment at any
\* position and by destroys, no two registered rows have equal keys.
C16_KeysAreUnique ==
    \A i \in 1..Len(rowRegistry), j \in 1..Len(rowRegistry) :
        i # j => rowRegistry[i].fractionalIndex # rowRegistry[j].fractionalIndex

\* C17: for every pair of keys lower < higher, the key generated between
\* them compares strictly greater than lower and strictly less than
\* higher, also when the two are numerically adjacent or differ in length.
C17_BetweenIsStrictlyBetween ==
    lastCall.op = "generateFractionalIndex" =>
        /\ LocaleCompare(lastCall.result, indexArgs.belowIndex) = 1
        /\ LocaleCompare(lastCall.result, indexArgs.aboveIndex) = -1

\* ------------------------------------------------------ visual neighbours
\* The rows registered before the step whose key is greater (smaller) than
\* k, and among them the ones nearest to k.
RowsAbove(k) == {i \in 1..Len(rowRegistry) : StringGreater(rowRegistry[i].fractionalIndex, k)}
RowsBelow(k) == {i \in 1..Len(rowRegistry) : StringGreater(k, rowRegistry[i].fractionalIndex)}

NearestAbove(k) ==
    {rowRegistry[i].id : i \in
        {j \in RowsAbove(k) :
            \A q \in RowsAbove(k) :
                ~StringGreater(rowRegistry[j].fractionalIndex, rowRegistry[q].fractionalIndex)}}

NearestBelow(k) ==
    {rowRegistry[i].id : i \in
        {j \in RowsBelow(k) :
            \A q \in RowsBelow(k) :
                ~StringGreater(rowRegistry[q].fractionalIndex, rowRegistry[j].fractionalIndex)}}

\* C18: after createRowInSpace the new row's top is the registered row with
\* the smallest key greater than the new key (or none), its bottom the
\* registered row with the largest key smaller than the new key (or none),
\* whatever their segments, and those two rows point back at the new row.
C18_LinkedToVisualNeighbours ==
    [][IsCreateStep =>
          LET k == NewRow.fractionalIndex
          IN  /\ IF NearestAbove(k) = {}
                 THEN NewRow.top = None
                 ELSE /\ NewRow.top \in NearestAbove(k)
                      /\ RowGet(rowRegistry', NewRow.top).bottom = NewRow.id
              /\ IF NearestBelow(k) = {}
                 THEN NewRow.bottom = None
                 ELSE /\ NewRow.bottom \in NearestBelow(k)
                      /\ RowGet(rowRegistry', NewRow.bottom).top = NewRow.id]_vars

\* ---------------------------------------------------------------- destroy
\* A destroyRow step on a registered row whose top and bottom are two
\* registered rows other than itself.
DestroysBetween(R) ==
    /\ Idle
    /\ lastCall'.op = "destroyRow"
    /\ lastCall'.kind = R
    /\ RowHas(rowRegistry, R)
    /\ RowOf(R).top \in RegisteredRows \ {R}
    /\ RowOf(R).bottom \in RegisteredRows \ {R}

CellsLinkedPairwise(cells, top, bottom) ==
    \A i \in 1..Len(top) :
        /\ cells[top[i]].bottom = bottom[i]
        /\ cells[bottom[i]].top = top[i]

\* C19: destroyRow(R) with top neighbour T and bottom neighbour B leaves
\* T.bottom = B and B.top = T, links cell i of T to cell i of B when the
\* two rows have equally many cells, and leaves R and every cell of R
\* absent from the row and cell registries and from the row and cell buses.
C19_DestroyRelinksNeighbours ==
    [][\A R \in RegisteredRows :
          DestroysBetween(R) =>
              LET T == RowOf(R).top
                  B == RowOf(R).bottom
              IN  /\ RowHas(rowRegistry', T) /\ RowHas(rowRegistry', B)
                  /\ RowGet(rowRegistry', T).bottom = B
                  /\ RowGet(rowRegistry', B).top = T
                  /\ Len(RowOf(T).cells) = Len(RowOf(B).cells)
                         => CellsLinkedPairwise(cellRegistry', RowOf(T).cells, RowOf(B).cells)
                  /\ ~RowHas(rowRegistry', R)
                  /\ R \notin gridHandlers'.row
                  /\ \A c \in Range(RowOf(R).cells) :
                         /\ ~CellHas(cellRegistry', c)
                         /\ c \notin gridHandlers'.cell]_vars

\* A destroyRow has just removed a rendered row from between two rendered
\* rows, which are still registered.
C19_Witness ==
    /\ lastCall.op = "destroyRow"
    /\ lastCall.cmd # NoCommand
    /\ lastCall.result.top \in RegisteredRows
    /\ lastCall.result.bottom \in RegisteredRows
    /\ lastCall.result.top # lastCall.result.bottom
    /\ RowOf(lastCall.result.top).cells # <<>>
    /\ Len(RowOf(lastCall.result.top).cells) = Len(RowOf(lastCall.result.bottom).cells)
    /\ Event("handler", "GridRow", Stamp(lastCall.cmd), "ok") \in Range(lastCall.trace)

\* -------------------------------------------------------------- round trip
\* The spaces as bring-up left them, before any row was added.
SpacesBefore == CreatePluginSpaces(<<>>, GetPlugins(BroughtUp), 1)

\* C20: after N rows were added at the bottom of an empty segment and then
\* destroyed in the same order, the segment's rowIds is empty and every
\* space of the chain has the top and bottom it had before.
C20_RoundTripLeavesSegmentEmpty ==
    (rowsCreated > 0 /\ rowRegistry = <<>>) =>
        \A i \in 1..Len(spaceRegistry) :
            /\ spaceRegistry[i].rowIds = <<>>
            /\ spaceRegistry[i].top = SpaceGet(SpacesBefore, spaceRegistry[i].id).top
            /\ spaceRegistry[i].bottom = SpaceGet(SpacesBefore, spaceRegistry[i].id).bottom

\* ------------------------------------------------------------ space rowIds
\* C21: each registered row's id is listed in the rowIds of exactly one
\* space, the one its spaceId names, and every id listed in a space's
\* rowIds is a registered row.
C21_RowsListedInOwningSpace ==
    /\ \A i \in 1..Len(rowRegistry), j \in 1..Len(spaceRegistry) :
           (rowRegistry[i].id \in Range(spaceRegistry[j].rowIds))
               <=> (spaceRegistry[j].id = rowRegistry[i].spaceId)
    /\ \A j \in 1..Len(spaceRegistry) :
           \A id \in Range(spaceRegistry[j].rowIds) : RowHas(rowRegistry, id)

\* ------------------------------------------------------ cross-space links
\* The registered rows of a segment, and the segment nearest to a space in
\* a direction that has registered rows.
RowsOfSpace(spaceId) ==
    {rowRegistry[i].id : i \in {j \in 1..Len(rowRegistry) : rowRegistry[j].spaceId = spaceId}}

RECURSIVE PopulatedFrom(_, _, _)
PopulatedFrom(spaceId, direction, fuel) ==
    IF spaceId = None \/ spaceId \notin SpaceIds(spaceRegistry) \/ fuel = 0 THEN None
    ELSE IF RowsOfSpace(spaceId) # {} THEN spaceId
    ELSE PopulatedFrom(IF direction = "above"
                       THEN SpaceGet(spaceRegistry, spaceId).top
                       ELSE SpaceGet(spaceRegistry, spaceId).bottom,
                       direction, fuel - 1)

NearestPopulated(spaceId, direction) ==
    PopulatedFrom(IF direction = "above"
                  THEN SpaceGet(spaceRegistry, spaceId).top
                  ELSE SpaceGet(spaceRegistry, spaceId).bottom,
                  direction, Len(spaceRegistry))

\* The rows of a segment that no other row of it sorts below (above): its
\* bottom-most (top-most) row, by position string.
BottomRows(spaceId) ==
    {r \in RowsOfSpace(spaceId) :
        \A o \in RowsOfSpace(spaceId) : LocaleCompare(RowOf(r).rowString, RowOf(o).rowString) <= 0}
TopRows(spaceId) ==
    {r \in RowsOfSpace(spaceId) :
        \A o \in RowsOfSpace(spaceId) : LocaleCompare(RowOf(r).rowString, RowOf(o).rowString) >= 0}

AllRowsHaveCells == \A r \in RegisteredRows : Len(RowOf(r).cells) = Len(Columns)

\* The step is the cross-space linking of row n, the row inserted last,
\* and no earlier insert's timer is still pending.
IsLinkStep(n) ==
    /\ Idle
    /\ lastCall'.op = "handleCrossSpaceLinking"
    /\ lastCall'.result.rowId = n
    /\ n = RowIdPool[rowsCreated]
    /\ timers' = {}

LinkedAcrossAbove(n) ==
    LET above == NearestPopulated(RowOf(n).spaceId, "above")
    IN  IF above = None
        THEN \A c \in Range(RowOf(n).cells) : cellRegistry'[c].top = None
        ELSE \E r \in BottomRows(above) :
                 CellsLinkedPairwise(cellRegistry', RowOf(r).cells, RowOf(n).cells)

LinkedAcrossBelow(n) ==
    LET below == NearestPopulated(RowOf(n).spaceId, "below")
    IN  IF below = None
        THEN \A c \in Range(RowOf(n).cells) : cellRegistry'[c].bottom = None
        ELSE \E r \in TopRows(below) :
                 CellsLinkedPairwise(cellRegistry', RowOf(n).cells, RowOf(r).cells)

\* C22: when the first row of an empty segment is linked, its cells are
\* linked above to the bottom-most row of the nearest segment above that
\* has rows and below to the top-most row of the nearest segment below
\* that has rows, whatever the position; a side with no such segment stays
\* unlinked.
C22_FirstRowLinkedBothWays ==
    [][\A n \in RegisteredRows :
          (IsLinkStep(n) /\ RowsOfSpace(RowOf(n).spaceId) = {n} /\ AllRowsHaveCells)
              => (LinkedAcrossAbove(n) /\ LinkedAcrossBelow(n))]_vars

\* The top-most (bottom-most) among the rows a segment had before row n.
PreviousTopRows(n) ==
    LET others == RowsOfSpace(RowOf(n).spaceId) \ {n}
    IN  {r \in others :
            \A o \in others : LocaleCompare(RowOf(r).rowString, RowOf(o).rowString) >= 0}
PreviousBottomRows(n) ==
    LET others == RowsOfSpace(RowOf(n).spaceId) \ {n}
    IN  {r \in others :
            \A o \in others : LocaleCompare(RowOf(r).rowString, RowOf(o).rowString) <= 0}

\* C23: a row inserted at the top (bottom) of a segment that already has a
\* row is linked on its interior side to the segment's previous top
\* (bottom) row, never across the segment boundary, and on its outer side
\* to the boundary row of the nearest populated segment above (below).
C23_LinkedInsideThenAcross ==
    [][\A n \in RegisteredRows :
          (IsLinkStep(n) /\ RowsOfSpace(RowOf(n).spaceId) # {n} /\ AllRowsHaveCells)
              => IF lastCall'.result.position = "top"
                 THEN /\ \E r \in PreviousTopRows(n) :
                             CellsLinkedPairwise(cellRegistry', RowOf(n).cells, RowOf(r).cells)
                      /\ LinkedAcrossAbove(n)
                 ELSE /\ \E r \in PreviousBottomRows(n) :
                             CellsLinkedPairwise(cellRegistry', RowOf(r).cells, RowOf(n).cells)
                      /\ LinkedAcrossBelow(n)]_vars

\* ---------------------------------------------------------- vetoed destroy
\* The step is destroyRow(R) on a registered row R.
IsDestroyStep(R) ==
    /\ Idle
    /\ lastCall'.op = "destroyRow"
    /\ lastCall'.kind = R
    /\ RowHas(rowRegistry, R)

\* A plugin's onBeforeRowCommand returned false for the call's command.
Vetoed(call) ==
    \E i \in 1..Len(call.trace) :
        call.trace[i].ev = "onBeforeRowCommand" /\ call.trace[i].ret = "false"

\* C24: when a plugin's onBeforeRowCommand returns false for the destroy
\* command of row R, the row, its cells, its handlers and the links of its
\* neighbours are left as they were.
C24_VetoedDestroyChangesNothing ==
    [][\A R \in RegisteredRows :
          (IsDestroyStep(R) /\ Vetoed(lastCall'))
              => /\ rowRegistry' = rowRegistry
                 /\ cellRegistry' = cellRegistry
                 /\ gridHandlers' = gridHandlers]_vars

\* ---------------------------------------------------------- destroy order
\* The row's handler received the call's destroy command.
HandlerCalled(call) ==
    \E i \in 1..Len(call.trace) : call.trace[i].ev = "handler"

\* C25: destroyRow(R) repairs the neighbours first, then delivers destroy
\* to R's handler, and only then removes R and R's cells: when the handler
\* receives the command R's former neighbours are linked to each other and
\* R and all of R's cells are still registered.
C25_RepairThenDeliverThenRemove ==
    [][\A R \in RegisteredRows :
          (IsDestroyStep(R) /\ HandlerCalled(lastCall'))
              => LET seen == lastCall'.result.atDispatch
                     T == RowOf(R).top
                     B == RowOf(R).bottom
                 IN  /\ (T \in RegisteredRows \ {R} /\ B \in RegisteredRows \ {R})
                            => /\ RowGet(seen.rowRegistry, T).bottom = B
                               /\ RowGet(seen.rowRegistry, B).top = T
                     /\ RowHas(seen.rowRegistry, R)
                     /\ R \in seen.gridHandlers.row
                     /\ \A c \in Range(RowOf(R).cells) :
                            /\ CellHas(seen.cellRegistry, c)
                            /\ c \in seen.gridHandlers.cell]_vars

\* ----------------------------------------------------- insert after nothing
\* C26: createRowInSpace with position after(R), R not a registered row,
\* creates and registers no row, allocates no key and leaves the row, cell
\* and space registries and all links as they were.
C26_InsertAfterMissingIsNoOp ==
    [][(/\ IsCreateStep
        /\ lastCall'.result.position.at = "after"
        /\ ~RowHas(rowRegistry, lastCall'.result.position.after))
           => /\ rowRegistry' = rowRegistry
              /\ cellRegistry' = cellRegistry
              /\ spaceRegistry' = spaceRegistry
              /\ rowsCreated' = rowsCreated]_vars

\* --------------------------------------------------------- plugin lifecycle
\* The plugins whose hook ev was called, in the order of the calls.
HookCallers(call, ev) ==
    LET called == SelectSeq(call.trace, LAMBDA e : e.ev = ev)
    IN  [i \in 1..Len(called) |-> called[i].who]

IsPMInitStep == Idle /\ lastCall'.op = "pmInitializePlugins" /\ lastCall'.result = NoError

IsPMDestroyStep == Idle /\ lastCall'.op = "destroy"

\* C27: initializePlugins calls each plugin's onInit after the onInit of
\* the plugins it depends on, in the initialization order, and calls the
\* onInit of every plugin that has one even when an earlier onInit threw;
\* destroy calls the onDestroy hooks in the reverse of that order.
C27_LifecycleOrder ==
    [][/\ IsPMInitStep =>
              LET callers == HookCallers(lastCall', "onInit")
              IN  /\ Range(callers) =
                         {n \in PluginNames(pmPlugins) : lastCall'.kind[n] # "absent"}
                  /\ \A i \in 1..Len(callers), j \in 1..Len(callers) :
                         /\ i < j => IndexOf(initializationOrder', callers[i])
                                         < IndexOf(initializationOrder', callers[j])
                         /\ callers[i] \in Requires(pmPlugins, callers[j]) => i < j
       /\ IsPMDestroyStep =>
              LET callers == HookCallers(lastCall', "onDestroy")
              IN  /\ Range(callers) =
                         {n \in Range(initializationOrder) : lastCall'.kind[n] # "absent"}
                  /\ \A i \in 1..Len(callers), j \in 1..Len(callers) :
                         i < j => IndexOf(initializationOrder, callers[i])
                                      > IndexOf(initializationOrder, callers[j])]_vars

\* initializePlugins went on to a plugin's onInit after the onInit of a
\* plugin it depends on threw.
C27_Witness ==
    /\ lastCall.op = "pmInitializePlugins"
    /\ lastCall.result = NoError
    /\ \E i \in 1..Len(lastCall.trace), j \in 1..Len(lastCall.trace) :
           /\ i < j
           /\ lastCall.trace[i].ret = "throw"
           /\ lastCall.trace[i].who \in DirectDeps(pmPlugins, lastCall.trace[j].who)

\* ------------------------------------------------------ capability object
IsCreateCommand == lastCall.op = "createCommand"

\* C28: a command dispatched through a plugin's capability object carries
\* the plugin's own name as originPlugin, whatever originPlugin the command
\* passed in names, and the target id given as the first argument; that is
\* the command the registry is handed and the one every interceptor and the
\* handler receive.
C28_CommandsCarryOwnName ==
    IsCreateCommand =>
        /\ lastCall.result.dispatched.originPlugin = lastCall.result.pluginName
        /\ lastCall.result.dispatched.targetId = lastCall.result.targetId
        /\ \A i \in 1..Len(lastCall.trace) :
               lastCall.trace[i].cmd.name = lastCall.cmd.name
                   => /\ lastCall.trace[i].cmd.originPlugin = lastCall.result.pluginName
                      /\ lastCall.trace[i].cmd.targetId = lastCall.result.targetId

\* Plugin A issued a command that named B as its origin and another target
\* than the one given, and the handler of the target received it.
C28_Witness ==
    /\ IsCreateCommand
    /\ lastCall.result.pluginName = "A"
    /\ lastCall.cmd.originPlugin = "B"
    /\ lastCall.cmd.targetId # lastCall.result.targetId
    /\ \E i \in 1..Len(lastCall.trace) :
           lastCall.trace[i].ev = "handler" /\ lastCall.trace[i].cmd.originPlugin = "A"

\* ------------------------------------------------------- plugin createRow
\* A createRow call of a plugin that owns a space, which no interceptor
\* blocked.
IsCreateRowStep ==
    /\ Idle
    /\ lastCall'.op = "createRow"
    /\ PluginSpace(lastCall'.kind) # None
    /\ \A i \in 1..Len(lastCall'.trace) : lastCall'.trace[i].ret # "false"

RowIdsOf(reg) == {reg[i].id : i \in 1..Len(reg)}

RowsIn(reg, spaceId) == {r \in Range(reg) : r.spaceId = spaceId}

\* C29: a plugin's createRow creates exactly one new registered row, whose
\* spaceId is the space created for the plugin (space-<pluginName>), reaches
\* the handler registered for that space, and leaves the rows and the rowIds
\* of every other space as they were.
C29_CreateRowInOwnSpace ==
    [][IsCreateRowStep =>
          LET own == SpaceId(lastCall'.kind) IN
          /\ \E r \in RowIdsOf(rowRegistry') :
                 /\ RowIdsOf(rowRegistry') \ RowIdsOf(rowRegistry) = {r}
                 /\ RowGet(rowRegistry', r).spaceId = own
          /\ \E i \in 1..Len(lastCall'.trace) :
                 /\ lastCall'.trace[i].ev = "handler"
                 /\ lastCall'.trace[i].who = own
          /\ \A s \in SpaceIds(spaceRegistry) \ {own} :
                 /\ RowsIn(rowRegistry', s) = RowsIn(rowRegistry, s)
                 /\ SpaceGet(spaceRegistry', s).rowIds = SpaceGet(spaceRegistry, s).rowIds]_vars

\* ----------------------------------------------------------- row lifecycle
\* Row ids are handed out once, and a row is registered when its id is
\* handed out: a created row that is not registered has been destroyed.
Destroyed(R) == R \in CreatedRows /\ ~RowHas(rowRegistry, R)

\* C30: a row is active and then destroyed, for good: once destroyRow(R) has
\* completed, R is never again in the row registry and never again has a
\* registered row handler, and a later destroyRow(R) changes no registry, no
\* link and no handler and dispatches no command.
C30_DestroyedIsTerminal ==
    [][\A R \in GridRowIds :
          /\ IsDestroyStep(R) => (~RowHas(rowRegistry', R) /\ R \notin gridHandlers'.row)
          /\ Destroyed(R) =>
                 /\ ~RowHas(rowRegistry', R)
                 /\ R \notin gridHandlers'.row
                 /\ (Idle /\ lastCall'.op = "destroyRow" /\ lastCall'.kind = R)
                        => /\ rowRegistry' = rowRegistry
                           /\ cellRegistry' = cellRegistry
                           /\ gridHandlers' = gridHandlers
                           /\ lastCall'.cmd = NoCommand
                           /\ lastCall'.trace = <<>>]_vars

\* ------------------------------------------------- deferred cell linking
CellsPopulated(n) == RowHas(rowRegistry, n) /\ Len(RowGet(rowRegistry, n).cells) > 0

\* C31: for every row the addRow handler inserted, once the row's cells are
\* populated the cross-segment cell-linking step is eventually performed for
\* it, whether the renderer populated the cells before the follow-up timer
\* of the insertion fired or after.
C31_PopulatedRowsGetLinked ==
    \A n \in GridRowIds : CellsPopulated(n) ~> (n \in linkedAcross)

\* ---------------------------------------------------- dangling references
RowLinksRegistered ==
    \A i \in 1..Len(rowRegistry) :
        /\ rowRegistry[i].top # None => RowHas(rowRegistry, rowRegistry[i].top)
        /\ rowRegistry[i].bottom # None => RowHas(rowRegistry, rowRegistry[i].bottom)

CellLinksRegistered ==
    \A c \in CellIds :
        CellHas(cellRegistry, c) =>
            /\ cellRegistry[c].top # None => CellHas(cellRegistry, cellRegistry[c].top)
            /\ cellRegistry[c].bottom # None => CellHas(cellRegistry, cellRegistry[c].bottom)
            /\ cellRegistry[c].left # None => CellHas(cellRegistry, cellRegistry[c].left)
            /\ cellRegistry[c].right # None => CellHas(cellRegistry, cellRegistry[c].right)

\* C32: after any sequence of inserts, cell linking and destroyRow calls,
\* every top and bottom of a registered row that is not null names a
\* registered row, and every top, bottom, left and right of a registered
\* cell that is not null names a registered cell.
C32_NoDanglingReferences == RowLinksRegistered /\ CellLinksRegistered

\* ------------------------------------------------- links follow key order
\* The order key of a row: fractionalIndex on the rows TableCore creates,
\* rowString on the rows a Space creates itself.
OrderKey(row) ==
    IF "fractionalIndex" \in DOMAIN row THEN row.fractionalIndex ELSE row.rowString

\* C33: in every reachable state, the rows created from the initial table
\* data included, whenever A.bottom is B for registered rows A and B, the
\* order key of A compares strictly greater than the order key of B.
C33_LinksFollowKeyOrder ==
    \A A \in RegisteredRows, B \in RegisteredRows :
        RowOf(A).bottom = B => StringGreater(OrderKey(RowOf(A)), OrderKey(RowOf(B)))

\* ----------------------------------------------------------- insert after
\* C34: createRowInSpace with position after(R), R registered, places the
\* new row immediately below R: the new key compares strictly less than R's
\* key and, when a row was immediately below R in the global order, strictly
\* greater than that row's key.
C34_AfterIsImmediatelyBelow ==
    [][(/\ IsCreateStep
        /\ lastCall'.result.position.at = "after"
        /\ RowHas(rowRegistry, lastCall'.result.position.after))
           => LET R == lastCall'.result.position.after
                  newKey == RowGet(rowRegistry', lastCall'.result.rowId).fractionalIndex
                  allRows == GetAllRowsSortedByIndex(rowRegistry)
                  targetIndex == CHOOSE i \in 1..Len(allRows) : allRows[i].id = R
              IN  /\ StringGreater(RowOf(R).fractionalIndex, newKey)
                  /\ targetIndex < Len(allRows)
                         => StringGreater(newKey, allRows[targetIndex + 1].fractionalIndex)]_vars

\* ------------------------------------------------------ reentrant dispatch
\* A click that FocusPlugin intercepted while a cell was its focused cell.
IsInterceptedClick ==
    /\ lastCall.op = "click"
    /\ lastCall.result.focusedCell # None
    /\ \E i \in 1..Len(lastCall.trace) :
           /\ lastCall.trace[i].who = FocusPluginName
           /\ lastCall.trace[i].cmd.name = "click"

\* The i-th call of the step is the handler of `cell` receiving `name`.
HandlerReceives(i, name, cell) ==
    /\ lastCall.trace[i].ev = "handler"
    /\ lastCall.trace[i].cmd.name = name
    /\ lastCall.trace[i].who = cell

\* The blur of the cell focused so far, then the focus of the clicked cell,
\* are delivered, and the click is delivered after both if at all.
BlurFocusThenClick ==
    \E i, j \in 1..Len(lastCall.trace) :
        /\ i < j
        /\ HandlerReceives(i, "blur", lastCall.result.focusedCell)
        /\ HandlerReceives(j, "focus", lastCall.kind)
        /\ \A k \in 1..Len(lastCall.trace) :
               HandlerReceives(k, "click", lastCall.kind) => k > j

\* FocusPlugin's interceptor is not invoked for a blur or a focus.
NoNestedInterception ==
    \A i \in 1..Len(lastCall.trace) :
        lastCall.trace[i].who = FocusPluginName
            => lastCall.trace[i].cmd.name \notin {"blur", "focus"}

\* No plugin blocked a blur or a focus of the step.
NestedNotBlocked ==
    \A i \in 1..Len(lastCall.trace) :
        lastCall.trace[i].cmd.name \in {"blur", "focus"}
            => lastCall.trace[i].ret # "false"

\* C35 as stated: when FocusPlugin intercepts a click on cell X while cell Y
\* is its focused cell, Y's handler receives blur, then X's handler receives
\* focus, X's handler receives the click only after both, and FocusPlugin's
\* interceptor is not invoked for the nested blur and focus.
C35_NestedAlwaysDelivered ==
    IsInterceptedClick => (BlurFocusThenClick /\ NoNestedInterception)

\* C35: when FocusPlugin intercepts a click on cell X while cell Y is its
\* focused cell, its interceptor is not invoked for the nested blur and
\* focus, no handler receives the blur after the focus or the click before
\* either, and when no other plugin blocks the blur or the focus, Y's
\* handler receives blur, then X's handler focus, and X's handler the click
\* only after both.
C35_ReentrantDispatchCompletes ==
    IsInterceptedClick =>
        /\ NoNestedInterception
        /\ \A i, j \in 1..Len(lastCall.trace) :
               /\ (lastCall.trace[i].ev = "handler" /\ lastCall.trace[j].ev = "handler"
                   /\ lastCall.trace[i].cmd.name = "focus"
                   /\ lastCall.trace[j].cmd.name = "blur") => j < i
               /\ (lastCall.trace[i].ev = "handler" /\ lastCall.trace[j].ev = "handler"
                   /\ lastCall.trace[i].cmd.name = "click"
                   /\ lastCall.trace[j].cmd.name \in {"blur", "focus"}) => j < i
        /\ (NestedNotBlocked => BlurFocusThenClick)

\* A click on a cell while another cell is focused: the blur, the focus and
\* the click are all delivered.
C35_Witness ==
    /\ IsInterceptedClick
    /\ lastCall.result.focusedCell # lastCall.kind
    /\ BlurFocusThenClick
    /\ \E k \in 1..Len(lastCall.trace) : HandlerReceives(k, "click", lastCall.kind)

\* --------------------------------------------------------- removed plugins
\* The plugins PluginManager holds: those added and neither removed with
\* removePlugin nor torn down by destroy.
RegisteredPlugins == PluginNames(pmPlugins)

\* The interceptors a dispatch invoked, in the order of their invocation.
Interceptors(trace) ==
    SelectSeq([i \in 1..Len(trace) |-> trace[i]], LAMBDA e : e.ev # "handler")

\* C36: once a plugin has been removed with removePlugin, or torn down by
\* destroy, no later dispatch on the Cell, Row or Space bus invokes its
\* interception callback, and the remaining plugins intercept in their
\* previous relative order.
C36_RemovedPluginsNeverIntercept ==
    lastCall.op = "dispatch" =>
        LET called == Interceptors(lastCall.trace) IN
        /\ \A i \in 1..Len(called) : called[i].who \in RegisteredPlugins
        /\ \A i, j \in 1..Len(called) :
               i < j => IndexOf(GetPlugins(RemovalBroughtUp), called[i].who)
                            < IndexOf(GetPlugins(RemovalBroughtUp), called[j].who)

\* ------------------------------------------------------------ initial keys
\* C37: for every count >= 1, count >= 10 included, the keys returned by
\* generateInitialFractionalIndices(count) are count keys, each strictly
\* greater than the next under the string comparison that sorts the rows
\* (hence pairwise distinct), so that item i is ordered above item j
\* whenever i < j.
C37_InitialKeysDescend ==
    lastCall.op = "generateInitialFractionalIndices" =>
        /\ Len(lastCall.result) = lastCall.kind
        /\ \A i, j \in 1..Len(lastCall.result) :
               i < j => StringGreater(lastCall.result[i], lastCall.result[j])

\* -------------------------------------------------------- keyboard commands
\* The calls of the step that were given the command of the step itself.
OwnCalls == SelectSeq(lastCall.trace, LAMBDA e : e.cmd = lastCall.cmd)

\* The command went through the plugin chain as any Cell command does: the
\* plugins of the Cell bus in their order, up to the first that blocks.
WentThroughChain(calls) ==
    /\ Len(calls) <= Len(busPlugins["cell"])
    /\ \A i \in 1..Len(calls) :
           /\ calls[i].ev = "onBeforeCellCommand"
           /\ calls[i].who = busPlugins["cell"][i]
           /\ i < Len(calls) => calls[i].ret # "false"
    /\ \/ Len(calls) = Len(busPlugins["cell"])
       \/ calls[Len(calls)].ret = "false"

SingleFocus(fs) ==
    /\ Cardinality(fs.focusedCells) <= 1
    /\ fs.focusedCells \subseteq {fs.focusedCell}

\* A keydown of an arrow key in a direction where the focused cell has no
\* neighbour (the step leaves the cell registry as it was).
IsArrowWithoutNeighbour ==
    /\ lastCall.op = "keyboard"
    /\ lastCall.kind = "keydown"
    /\ IsArrow(lastCall.cmd.payload)
    /\ lastCall.result.focusedCell # None
    /\ Neighbour(lastCall.result.focusedCell, lastCall.cmd.payload) = None

FocusUnchanged == FocusState(focusedCell, focusedCells) = lastCall.result

\* No plugin blocked a blur of the step.
BlurNotBlocked ==
    \A i \in 1..Len(lastCall.trace) :
        lastCall.trace[i].cmd.name = "blur" => lastCall.trace[i].ret # "false"

\* C39 as stated: after any sequence of clicks and arrow keydowns at most
\* one cell is focused and a focused cell is FocusPlugin's focusedCell; an
\* arrow key in a direction without a neighbour changes neither.
C39_AlwaysSingleFocus ==
    /\ SingleFocus(FocusState(focusedCell, focusedCells))
    /\ IsArrowWithoutNeighbour => FocusUnchanged

\* C39: a click or a keydown in which no other plugin blocks a blur leaves
\* at most one cell focused, and that cell recorded as FocusPlugin's
\* focusedCell, when it was so before; an arrow key in a direction where
\* the focused cell has no neighbour changes neither.
C39_SingleFocusUnlessBlurBlocked ==
    /\ (lastCall.op \in {"click", "keyboard"} /\ SingleFocus(lastCall.result)
        /\ BlurNotBlocked) => SingleFocus(FocusState(focusedCell, focusedCells))
    /\ IsArrowWithoutNeighbour => FocusUnchanged

\* An arrow key has moved the focus from one cell to its neighbour.
C39_Witness ==
    /\ lastCall.op = "keyboard"
    /\ IsArrow(lastCall.cmd.payload)
    /\ lastCall.result.focusedCells = {lastCall.result.focusedCell}
    /\ focusedCell # lastCall.result.focusedCell
    /\ focusedCells = {focusedCell}

====
